---- MODULE Spec2Model ----
(***************************************************************************)
(* Model of Source/Core/Core/IOS/USB/Bluetooth/BTReal.cpp: the Bluetooth   *)
(* passthrough device.  Two threads act on the state: the owning (CPU)     *)
(* thread, which runs IOCtlV, UpdateSyncButtonState and the destructor,    *)
(* and the libusb thread, which runs CommandCallback and TransferCallback. *)
(* IOCtlV is split at its blocking call (WaitForHCICommandComplete) and    *)
(* before its switch, so that completion callbacks interleave with it.     *)
(***************************************************************************)
EXTENDS Integers, Sequences, FiniteSets, TLC

(***************************************************************************)
(* Bounds of the model.                                                    *)
(***************************************************************************)
\* Number of requests the guest hands to IOCtlV in one behaviour.
MaxRequests == 3
\* Number of devices libusb_get_device_list returns to Open.
MaxDevices == 2

\* The largest number of entries in the configuration text a session starts with.
MaxEntries == 2

\* The largest number of link keys the store holds when a session starts.
MaxStoreSize == 12

(***************************************************************************)
(* Program constants.                                                      *)
(***************************************************************************)
HCI_CMD_RESET == 3075
HCI_CMD_READ_BUFFER_SIZE == 4101
HCI_CMD_DELETE_STORED_LINK_KEY == 3090
HCI_CMD_WRITE_STORED_LINK_KEY == 3089
VENDOR_CMD_FC4C == 64588
VENDOR_CMD_FC4F == 64591
HCI_EVENT_COMMAND_COMPL == 14
HCI_EVENT_LINK_KEY_NOTIFICATION == 24
HCI_EVENT_VENDOR == 255
\* Endpoints: HCI events (interrupt in) and ACL data (bulk in).
HCI_EVENT == 129
ACL_DATA_IN == 130
SYNC_BUTTON_HOLD_MS_TO_RESET == 10000
\* Payload bytes of the two synthesized sync button events.
SYNC_PRESSED_PAYLOAD == 8
SYNC_HELD_PAYLOAD == 9
MAC_ADDRESS_SIZE == 6
LINK_KEY_SIZE == 16
\* The first-party module's idVendor and idProduct.
WII_BT_VENDOR_ID == 1406
WII_BT_PRODUCT_ID == 773
\* sizeof(hci_cmd_hdr_t): u16 opcode, u8 length.
\* WaitForHCICommandComplete: the number of transfers it tries at most.
MaxTries == 100

HCI_CMD_HDR_SIZE == 3
\* sizeof(hci_write_stored_link_key_cp): u8 num_keys_write.
HCI_WRITE_STORED_LINK_KEY_CP_SIZE == 1

\* The fixed figures of the synthesized read-buffer-size reply, by name.
ReadBufferSizeConstants ==
  [status |-> 0, max_acl_size |-> "ACL_PKT_SIZE", num_acl_pkts |-> "ACL_PKT_NUM",
   max_sco_size |-> "SCO_PKT_SIZE", num_sco_pkts |-> "SCO_PKT_NUM"]

VendorOpcodes == {VENDOR_CMD_FC4C, VENDOR_CMD_FC4F}
CtrlOpcodes ==
  {HCI_CMD_RESET, HCI_CMD_READ_BUFFER_SIZE, HCI_CMD_DELETE_STORED_LINK_KEY} \cup VendorOpcodes

\* libusb_transfer_status values the callbacks distinguish.
TransferStatuses == {"COMPLETED", "ERROR", "TIMED_OUT", "NO_DEVICE"}

(***************************************************************************)
(* Addresses (btaddr_t, 6 bytes, wire order) and link keys (linkkey_t, 16  *)
(* bytes) the adapter and the guest use in this model.                     *)
(***************************************************************************)
Addr1 == <<255, 238, 221, 204, 187, 170>>
Addr2 == <<1, 2, 3, 4, 5, 6>>
Addrs == {Addr1, Addr2}
Key1 == <<0, 1, 15, 16, 165, 255, 9, 10, 11, 12, 13, 14, 127, 128, 200, 7>>
Key2 == <<17, 34, 51, 68, 85, 102, 119, 136, 153, 170, 187, 204, 221, 238, 255, 3>>
Keys == {Key1, Key2}

\* s_link_keys values: maps from a set of addresses to keys.
EmptyStore == << >>
Stores == UNION {[D -> Keys] : D \in SUBSET Addrs}

\* Marks a byte of a local array that no statement has written.
Indeterminate == -1

(***************************************************************************)
(* Text: a string is a sequence of one-character strings.                  *)
(***************************************************************************)
HexDigits == <<"0", "1", "2", "3", "4", "5", "6", "7", "8", "9", "a", "b", "c", "d", "e", "f">>

IsHexChar(c) == \E i \in 1..16 : HexDigits[i] = c

HexValue(c) == (CHOOSE i \in 1..16 : HexDigits[i] = c) - 1

RECURSIVE Concat(_)
Concat(seqs) == IF seqs = << >> THEN << >> ELSE Head(seqs) \o Concat(Tail(seqs))

Reverse(s) == [i \in 1..Len(s) |-> s[Len(s) + 1 - i]]

\* operator<< of an integer under std::hex: the digits without leading zeros.
RECURSIVE HexString(_)
HexString(n) ==
  IF n < 16 THEN <<HexDigits[n + 1]>>
  ELSE HexString(n \div 16) \o <<HexDigits[(n % 16) + 1]>>

\* std::setfill(fill) << std::setw(width): pads on the left up to the width.
RECURSIVE PadLeft(_, _, _)
PadLeft(s, width, fill) ==
  IF Len(s) >= width THEN s ELSE PadLeft(<<fill>> \o s, width, fill)

\* Common::MacAddressToString: "%02x:%02x:%02x:%02x:%02x:%02x".
MacAddressToString(mac) ==
  Concat([i \in 1..MAC_ADDRESS_SIZE |->
            (IF i = 1 THEN << >> ELSE <<":">>) \o PadLeft(HexString(mac[i]), 2, "0")])

\* Common::StringToMacAddress: the hex digits of the text, separators skipped,
\* two per byte, written into mac; bytes the text does not reach stay as they were.
RECURSIVE HexDigitsOf(_)
HexDigitsOf(s) ==
  IF s = << >> THEN << >>
  ELSE (IF IsHexChar(Head(s)) THEN <<HexValue(Head(s))>> ELSE << >>) \o HexDigitsOf(Tail(s))

StringToMacAddress(s, mac) ==
  LET d == HexDigitsOf(s) IN
  [i \in 1..MAC_ADDRESS_SIZE |->
     IF 2 * i <= Len(d) THEN 16 * d[2 * i - 1] + d[2 * i] ELSE mac[i]]

\* SplitString: the pieces between delimiters (std::getline), an empty last piece
\* dropped.  A piece ends before each delimiter, and at the end of a text that
\* does not end in one.
SplitString(s, delim) ==
  LET ends == {i \in 1..Len(s) : s[i] = delim}
                \cup (IF s # << >> /\ s[Len(s)] # delim THEN {Len(s) + 1} ELSE {})
      End(n) == CHOOSE e \in ends : Cardinality({x \in ends : x < e}) = n - 1
  IN  [n \in 1..Cardinality(ends) |->
         SubSeq(s, IF n = 1 THEN 1 ELSE End(n - 1) + 1, End(n) - 1)]

\* std::string::find: the first position of c in s, 0 when absent (npos).
Find(s, c) ==
  IF \E i \in 1..Len(s) : s[i] = c
  THEN CHOOSE i \in 1..Len(s) : s[i] = c /\ \A j \in 1..(i - 1) : s[j] # c
  ELSE 0

\* std::stringstream(chunk) >> std::hex >> value: the leading hex digits of the
\* chunk as a number; 0 when it has none (a failed extraction stores 0).
RECURSIVE LeadingHex(_, _)
LeadingHex(chunk, acc) ==
  IF chunk = << >> \/ ~IsHexChar(Head(chunk)) THEN acc
  ELSE LeadingHex(Tail(chunk), 16 * acc + HexValue(Head(chunk)))

ParseHexChunk(chunk) == LeadingHex(chunk, 0)

(***************************************************************************)
(* std::map<btaddr_t, linkkey_t>: ordered by std::array's operator<.       *)
(***************************************************************************)
RECURSIVE SeqLess(_, _)
SeqLess(a, b) ==
  IF a = << >> \/ b = << >> THEN a = << >> /\ b # << >>
  ELSE IF Head(a) # Head(b) THEN Head(a) < Head(b)
  ELSE SeqLess(Tail(a), Tail(b))

\* The keys of the map in iteration order.
RECURSIVE SortedAddrs(_)
SortedAddrs(D) ==
  IF D = {} THEN << >>
  ELSE LET m == CHOOSE a \in D : \A b \in D \ {a} : SeqLess(a, b)
       IN  <<m>> \o SortedAddrs(D \ {m})

\* s_link_keys[addr] = key
MapSet(store, addr, key) ==
  [a \in (DOMAIN store) \cup {addr} |-> IF a = addr THEN key ELSE store[a]]

\* s_link_keys.erase(addr)
MapErase(store, addr) == [a \in (DOMAIN store) \ {addr} |-> store[a]]

(***************************************************************************)
(* The link key configuration text (SConfig m_bt_passthrough_link_keys).   *)
(***************************************************************************)
\* A faulty variant of LoadAddress: the address is stored in the order of the text.
LoadAddress_TextOrder(text) ==
  StringToMacAddress(text, [i \in 1..MAC_ADDRESS_SIZE |-> Indeterminate])

\* BluetoothReal::LoadLinkKeys, the address of a pair: the local array starts
\* unwritten, StringToMacAddress fills it and std::reverse turns it around.
LoadAddress(text) ==
  Reverse(StringToMacAddress(text, [i \in 1..MAC_ADDRESS_SIZE |-> Indeterminate]))

\* BluetoothReal::LoadLinkKeys, one "address=key" pair: the store with the pair's
\* entry set, or unchanged when the pair has no '='.
LoadPair(pair, store) ==
  LET index == Find(pair, "=") IN
  IF index = 0 THEN store
  ELSE LET address == LoadAddress(SubSeq(pair, 1, index - 1))
           key_string == SubSeq(pair, index + 1, Len(pair))
           chunks == (Len(key_string) + 1) \div 2
           key == [pos \in 1..LINK_KEY_SIZE |->
                     IF pos <= chunks
                     THEN ParseHexChunk(SubSeq(key_string, 2 * pos - 1,
                                               IF 2 * pos <= Len(key_string)
                                               THEN 2 * pos ELSE Len(key_string))) % 256
                     ELSE Indeterminate]
       IN  MapSet(store, address, key)

RECURSIVE LoadPairs(_, _)
LoadPairs(pairs, store) ==
  IF pairs = << >> THEN store
  ELSE LoadPairs(Tail(pairs), LoadPair(Head(pairs), store))

\* BluetoothReal::LoadLinkKeys: s_link_keys after loading the text into `store`.
LoadLinkKeys(entries, store) ==
  IF entries = << >> THEN store
  ELSE LoadPairs(SplitString(entries, ","), store)

\* A faulty variant of SaveEntry: the key bytes are written without std::setw(2).
SaveEntry_NoPad(addr, key) ==
  MacAddressToString(Reverse(addr)) \o <<"=">>
    \o Concat([i \in 1..Len(key) |-> HexString(key[i])]) \o <<",">>

\* The text SaveLinkKeys writes for one entry, with its trailing ','.
SaveEntry(addr, key) ==
  MacAddressToString(Reverse(addr)) \o <<"=">>
    \o Concat([i \in 1..Len(key) |-> PadLeft(HexString(key[i]), 2, "0")]) \o <<",">>

\* BluetoothReal::SaveLinkKeys: the configuration text of the store.
SaveLinkKeys(store) ==
  LET order == SortedAddrs(DOMAIN store)
      config_string == Concat([i \in 1..Len(order) |-> SaveEntry(order[i], store[order[i]])])
  IN  IF config_string # << >> THEN SubSeq(config_string, 1, Len(config_string) - 1)
      ELSE config_string

\* The configuration text at first start: "aa:bb:cc:dd:ee:ff=00010f10a5ff090a0b0c0d0e7f80c807".
InitialConfig ==
  <<"a", "a", ":", "b", "b", ":", "c", "c", ":", "d", "d", ":", "e", "e", ":", "f", "f",
  "=", "0", "0", "0", "1", "0", "f", "1", "0", "a", "5", "f", "f", "0", "9", "0", "a", "0",
  "b", "0", "c", "0", "d", "0", "e", "7", "f", "8", "0", "c", "8", "0", "7">>

(***************************************************************************)
(* Guest requests, transfers and adapter events.                           *)
(***************************************************************************)
\* The requests IOCtlV is handed: control messages (HCI commands; the address and
\* the delete-all flag are the payload of delete-stored-link-key), bulk messages
\* on the ACL endpoint and interrupt messages on the HCI event endpoint.
CtrlRequests ==
  {[kind |-> "ctrl", opcode |-> o, bdaddr |-> Addr1, delete_all |-> 0, endpoint |-> 0] :
     o \in CtrlOpcodes \ {HCI_CMD_DELETE_STORED_LINK_KEY}}
  \cup {[kind |-> "ctrl", opcode |-> HCI_CMD_DELETE_STORED_LINK_KEY, bdaddr |-> a,
         delete_all |-> f, endpoint |-> 0] : a \in Addrs, f \in {0, 1}}

BlkRequest ==
  [kind |-> "blk", opcode |-> 0, bdaddr |-> Addr1, delete_all |-> 0, endpoint |-> ACL_DATA_IN]

IntrRequest ==
  [kind |-> "intr", opcode |-> 0, bdaddr |-> Addr1, delete_all |-> 0, endpoint |-> HCI_EVENT]

Requests == CtrlRequests \cup {BlkRequest, IntrRequest}

\* What the adapter puts in the buffer of a completed bulk or interrupt transfer.
AdapterEvents ==
  {[event |-> HCI_EVENT_LINK_KEY_NOTIFICATION, opcode |-> 0, bdaddr |-> a, key |-> k] :
     a \in Addrs, k \in Keys}
  \cup {[event |-> HCI_EVENT_COMMAND_COMPL, opcode |-> o, bdaddr |-> Addr1, key |-> Key1] :
          o \in {HCI_CMD_RESET, HCI_CMD_WRITE_STORED_LINK_KEY}}

\* tr->actual_length as libusb reports it to a callback: nothing, or some bytes
\* (a transfer that failed may have moved a part of its data).
ActualLengths == {0, 4}

\* tr->actual_length of a transfer that moved data.
SomeBytes == CHOOSE n \in ActualLengths : n > 0

\* Statuses of a control transfer: it is submitted with timeout 0 (none).
CtrlStatuses == TransferStatuses \ {"TIMED_OUT"}

\* Elapsed times (ms) at which the held timer is read.
TimeSamples == {0, 10000, 11000}

SyncButtonStates == {"Unpressed", "Held", "Pressed", "LongPressed", "Ignored"}

\* The latches, by the opcode that raises them.
LatchKeys == {HCI_CMD_READ_BUFFER_SIZE, VENDOR_CMD_FC4C, VENDOR_CMD_FC4F, HCI_CMD_RESET}

NoRequest ==
  [kind |-> "none", opcode |-> 0, bdaddr |-> Addr1, delete_all |-> 0, endpoint |-> 0,
   id |-> 0, after_reset |-> "none", keys_at_begin |-> FALSE]

\* A reply: the handle it is enqueued on, the function that made it and what it holds.
NoReply ==
  [id |-> 0, from |-> "none", event |-> 0, opcode |-> 0, payload |-> "none", size |-> "none"]

NoCompletion == [status |-> "none", type |-> "none", notice |-> FALSE, actual_length |-> 0]

NoOpen == [devices |-> << >>, vid |-> -1, pid |-> -1, ret |-> "none"]

NoDoState == [mode |-> "none", stored |-> TRUE, warned |-> FALSE, mode_after |-> "none"]

VARIABLES
  m_is_wii_bt_module,                 \* the adapter is the first-party module
  s_link_keys,                        \* address -> link key
  s_need_reset_keys,                  \* latch: a reset was seen, keys need resync
  s_showed_failed_transfer,           \* latch: the failure notice is on display
  m_fake_read_buffer_size_reply,      \* latch
  m_fake_vendor_command_reply,        \* latch
  m_fake_vendor_command_reply_opcode,
  m_sync_button_state,
  held_ms,                            \* m_sync_button_held_timer.GetTimeDifference() while Held
  m_bt_passthrough_link_keys,         \* the configuration text
  session,                            \* "open", or "destroyed" after the destructor
  pc,                                 \* where the owning thread is in IOCtlV
  cur,                                \* the request IOCtlV is handling
  next_id,                            \* handle of the next request
  transfers,                          \* asynchronous transfers libusb holds
  sync_sent,                          \* commands IOCtlV sent synchronously for cur
  replies,                            \* request handle -> number of EnqueueReply calls
  last_reply,                         \* the reply enqueued last
  last_completion,                    \* the completion callback that ran last
  \* History, for stating the claims; no action reads it to decide anything.
  trig,                               \* latch -> times its trigger occurred
  fired,                              \* latch -> times its effect was produced
  rbs_since_intr,                     \* read-buffer-size command since the last interrupt request
  rbs_owed,                           \* ... since the last one that found no sync event
  reset_pending,                      \* reset seen since the last IOCtlV began
  notice_since_success,               \* notice shown since the last COMPLETED completion
  notice_since_clear,                 \* notice shown since the last completion that was no failure
  \* The session's resources.
  m_handle,                           \* "null", or what libusb_open left in it
  m_is_active,
  m_thread_running,                   \* the transfer thread's flag
  m_libusb_context,                   \* "init", or "exited" after libusb_exit
  teardown,                           \* the calls the last Close or destructor made, in order
  last_open,                          \* the last Open: what it was given and what it returned
  last_do_state,                      \* the last DoState: what it was given and what it did
  \* WaitForHCICommandComplete.
  wait_opcode,                        \* the opcode it waits for, 0 when it is not running
  tries,                              \* its loop counter
  polls,                              \* libusb_interrupt_transfer calls it has made
  \* Who is inside an access to s_link_keys.
  owner_access,                       \* owning thread: "none", "delete", "iterate"
  libusb_access                       \* libusb thread: "none", "upsert"

vars ==
  <<m_is_wii_bt_module, s_link_keys, s_need_reset_keys, s_showed_failed_transfer,
    m_fake_read_buffer_size_reply, m_fake_vendor_command_reply,
    m_fake_vendor_command_reply_opcode, m_sync_button_state, held_ms,
    m_bt_passthrough_link_keys, session, pc, cur, next_id, transfers, sync_sent,
    replies, last_reply, last_completion, trig, fired, rbs_since_intr, rbs_owed,
    reset_pending, notice_since_success, notice_since_clear,
    m_handle, m_is_active, m_thread_running, m_libusb_context, teardown, last_open,
    last_do_state, wait_opcode, tries, polls, owner_access, libusb_access>>

lifeVars ==
  <<m_handle, m_is_active, m_thread_running, m_libusb_context, teardown, last_open,
    last_do_state>>
waitVars == <<wait_opcode, tries, polls>>
raceVars == <<owner_access, libusb_access>>
deviceVars ==
  <<m_is_wii_bt_module, m_bt_passthrough_link_keys, session, lifeVars, waitVars>>
syncVars == <<m_sync_button_state, held_ms>>
fakeVars ==
  <<m_fake_read_buffer_size_reply, m_fake_vendor_command_reply,
    m_fake_vendor_command_reply_opcode>>
requestVars == <<pc, cur, next_id, sync_sent>>
noticeVars ==
  <<s_showed_failed_transfer, last_completion, notice_since_success, notice_since_clear>>
fakeHistory == <<rbs_since_intr, rbs_owed>>

RequestIds == 1..MaxRequests

\* The state after construction (LoadLinkKeys has run) and a successful Open with
\* either kind of adapter.
Init ==
  /\ m_is_wii_bt_module \in BOOLEAN
  /\ m_bt_passthrough_link_keys = InitialConfig
  /\ s_link_keys = LoadLinkKeys(InitialConfig, EmptyStore)
  /\ s_need_reset_keys = FALSE
  /\ s_showed_failed_transfer = FALSE
  /\ m_fake_read_buffer_size_reply = FALSE
  /\ m_fake_vendor_command_reply = FALSE
  /\ m_fake_vendor_command_reply_opcode = 0
  /\ m_sync_button_state = "Unpressed"
  /\ held_ms = 0
  /\ session = "open"
  /\ pc = "idle"
  /\ cur = NoRequest
  /\ next_id = 1
  /\ transfers = {}
  /\ sync_sent = << >>
  /\ replies = [i \in RequestIds |-> 0]
  /\ last_reply = NoReply
  /\ last_completion = NoCompletion
  /\ trig = [l \in LatchKeys |-> 0]
  /\ fired = [l \in LatchKeys |-> 0]
  /\ rbs_since_intr = FALSE
  /\ rbs_owed = FALSE
  /\ reset_pending = "none"
  /\ notice_since_success = FALSE
  /\ notice_since_clear = FALSE
  /\ m_handle = "claimed"
  /\ m_is_active = TRUE
  /\ m_thread_running = TRUE
  /\ m_libusb_context = "init"
  /\ teardown = << >>
  /\ last_open = NoOpen
  /\ last_do_state = NoDoState
  /\ wait_opcode = 0
  /\ tries = 0
  /\ polls = 0
  /\ owner_access = "none"
  /\ libusb_access = "none"

(***************************************************************************)
(* The sync button.                                                        *)
(***************************************************************************)
\* A faulty variant of UpdateSyncButtonState: the threshold itself counts as a long press.
UpdateSyncButtonState_AtThreshold(state, ms, is_held) ==
  LET s1 == IF state = "Unpressed" /\ is_held
            THEN [state |-> "Held", ms |-> 0]
            ELSE [state |-> state, ms |-> ms]
      s2 == IF s1.state = "Held" /\ is_held /\ s1.ms >= SYNC_BUTTON_HOLD_MS_TO_RESET
            THEN [s1 EXCEPT !.state = "LongPressed"]
            ELSE IF s1.state = "Held" /\ ~is_held
            THEN [s1 EXCEPT !.state = "Pressed"]
            ELSE s1
  IN  IF s2.state = "Ignored" /\ ~is_held
      THEN [s2 EXCEPT !.state = "Unpressed"]
      ELSE s2

\* A faulty variant of UpdateSyncButtonState: a released sample rearms the button
\* from Pressed and LongPressed as it does from Ignored.
UpdateSyncButtonState_ReleaseRearms(state, ms, is_held) ==
  LET s1 == IF state = "Unpressed" /\ is_held
            THEN [state |-> "Held", ms |-> 0]
            ELSE [state |-> state, ms |-> ms]
      s2 == IF s1.state = "Held" /\ is_held /\ s1.ms > SYNC_BUTTON_HOLD_MS_TO_RESET
            THEN [s1 EXCEPT !.state = "LongPressed"]
            ELSE IF s1.state = "Held" /\ ~is_held
            THEN [s1 EXCEPT !.state = "Pressed"]
            ELSE s1
  IN  IF s2.state \in {"Ignored", "Pressed", "LongPressed"} /\ ~is_held /\ state # "Held"
      THEN [s2 EXCEPT !.state = "Unpressed"]
      ELSE s2

\* A faulty variant of UpdateSyncButtonState: Ignored is left on any sample.
UpdateSyncButtonState_IgnoredClears(state, ms, is_held) ==
  LET s1 == IF state = "Unpressed" /\ is_held
            THEN [state |-> "Held", ms |-> 0]
            ELSE [state |-> state, ms |-> ms]
      s2 == IF s1.state = "Held" /\ is_held /\ s1.ms > SYNC_BUTTON_HOLD_MS_TO_RESET
            THEN [s1 EXCEPT !.state = "LongPressed"]
            ELSE IF s1.state = "Held" /\ ~is_held
            THEN [s1 EXCEPT !.state = "Pressed"]
            ELSE s1
  IN  IF s2.state = "Ignored"
      THEN [s2 EXCEPT !.state = "Unpressed"]
      ELSE s2

\* BluetoothReal::UpdateSyncButtonState: the state and the timer reading after a
\* sample, given them before.  Its three statements run in order.
UpdateSyncButtonState(state, ms, is_held) ==
  LET s1 == IF state = "Unpressed" /\ is_held
            THEN [state |-> "Held", ms |-> 0]       \* m_sync_button_held_timer.Update()
            ELSE [state |-> state, ms |-> ms]
      s2 == IF s1.state = "Held" /\ is_held /\ s1.ms > SYNC_BUTTON_HOLD_MS_TO_RESET
            THEN [s1 EXCEPT !.state = "LongPressed"]
            ELSE IF s1.state = "Held" /\ ~is_held
            THEN [s1 EXCEPT !.state = "Pressed"]
            ELSE s1
  IN  IF s2.state = "Ignored" /\ ~is_held
      THEN [s2 EXCEPT !.state = "Unpressed"]
      ELSE s2

\* The owning thread samples the button between requests.
UpdateSyncButton(is_held) ==
  /\ session = "open"
  /\ pc = "idle"
  /\ LET r == UpdateSyncButtonState(m_sync_button_state, held_ms, is_held) IN
       /\ m_sync_button_state' = r.state
       /\ held_ms' = IF r.state = "Held" THEN r.ms ELSE 0
  /\ UNCHANGED <<raceVars, deviceVars, s_link_keys, s_need_reset_keys, fakeVars, requestVars,
                 transfers, replies, last_reply, noticeVars, trig, fired, fakeHistory,
                 reset_pending>>

\* Time passes while the button is held: the timer is read only in state Held.
Tick ==
  /\ session = "open"
  /\ pc = "idle"
  /\ m_sync_button_state = "Held"
  /\ \E t \in TimeSamples : t > held_ms /\ held_ms' = t
  /\ UNCHANGED <<raceVars, deviceVars, s_link_keys, s_need_reset_keys, fakeVars, requestVars,
                 transfers, replies, last_reply, noticeVars, trig, fired, fakeHistory,
                 reset_pending, m_sync_button_state>>

\* BluetoothReal::TriggerSyncButtonPressedEvent
TriggerSyncButtonPressedEvent ==
  /\ session = "open"
  /\ pc = "idle"
  /\ m_sync_button_state' = "Pressed"
  /\ held_ms' = 0
  /\ UNCHANGED <<raceVars, deviceVars, s_link_keys, s_need_reset_keys, fakeVars, requestVars,
                 transfers, replies, last_reply, noticeVars, trig, fired, fakeHistory,
                 reset_pending>>

\* BluetoothReal::TriggerSyncButtonHeldEvent
TriggerSyncButtonHeldEvent ==
  /\ session = "open"
  /\ pc = "idle"
  /\ m_sync_button_state' = "LongPressed"
  /\ held_ms' = 0
  /\ UNCHANGED <<raceVars, deviceVars, s_link_keys, s_need_reset_keys, fakeVars, requestVars,
                 transfers, replies, last_reply, noticeVars, trig, fired, fakeHistory,
                 reset_pending>>

(***************************************************************************)
(* IOCtlV.                                                                 *)
(***************************************************************************)
\* A faulty variant of AfterTestAndClear: the latch is tested and not cleared.
AfterTestOnly(latch, taken) == latch

\* Common::Flag::TestAndClear on a latch: its value after the test, taken or not.
AfterTestAndClear(latch, taken) == IF taken THEN FALSE ELSE latch

\* A faulty variant of NeedsKeyResync: the adapter's identity is not looked at.
NeedsKeyResync_AnyAdapter(is_wii, need_reset) == need_reset

\* The condition of the resynchronization, without its TestAndClear.
NeedsKeyResync(is_wii, need_reset) == ~is_wii /\ need_reset

\* BluetoothReal::SendHCIDeleteLinkKeyCommand: the packet it sends.
DeleteLinkKeyCommand ==
  [opcode |-> HCI_CMD_DELETE_STORED_LINK_KEY, bdaddr |-> <<0, 0, 0, 0, 0, 0>>,
   delete_all |-> 1]

\* const u8 payload_size: sizeof(hci_write_stored_link_key_cp) plus the entries of
\* static_cast<u8>(size), narrowed to 8 bits.
PayloadSize(size) ==
  (HCI_WRITE_STORED_LINK_KEY_CP_SIZE + (MAC_ADDRESS_SIZE + LINK_KEY_SIZE) * (size % 256)) % 256

\* BluetoothReal::SendHCIStoreLinkKeyCommand: the packet it sends for a non-empty
\* store.  The vector has packet_size bytes; the loop copies every entry of the
\* store from the end of the headers on, copied_to bytes in all, and what it
\* copies past the end of the vector is written outside it.
StoreLinkKeyCommand(store) ==
  LET order == SortedAddrs(DOMAIN store)
      n == Len(order)
  IN  [opcode |-> HCI_CMD_WRITE_STORED_LINK_KEY,
       length |-> PayloadSize(n),
       num_keys_write |-> n % 256,
       entries |-> [i \in 1..n |-> <<order[i], store[order[i]]>>],
       packet_size |-> HCI_CMD_HDR_SIZE + PayloadSize(n),
       copied_to |-> HCI_CMD_HDR_SIZE + HCI_WRITE_STORED_LINK_KEY_CP_SIZE
                       + (MAC_ADDRESS_SIZE + LINK_KEY_SIZE) * n]

\* An access to s_link_keys that runs while the other thread is inside one of its
\* own is a data race: the map may be left holding anything.
RaceOutcomes(value, racing) == IF racing THEN Stores ELSE {value}

\* IOCtlV, up to the first WaitForHCICommandComplete: the latch is tested and
\* cleared and, when it was set on a third-party adapter, the delete command sent.
IOCtlVBegin(req) ==
  /\ session = "open"
  /\ pc = "idle"
  /\ next_id <= MaxRequests
  /\ LET resync == NeedsKeyResync(m_is_wii_bt_module, s_need_reset_keys) IN
       /\ cur' = [kind |-> req.kind, opcode |-> req.opcode, bdaddr |-> req.bdaddr,
                  delete_all |-> req.delete_all, endpoint |-> req.endpoint,
                  id |-> next_id, after_reset |-> reset_pending,
                  keys_at_begin |-> s_link_keys # EmptyStore]
       /\ s_need_reset_keys' = AfterTestAndClear(s_need_reset_keys, resync)
       /\ sync_sent' = IF resync THEN <<DeleteLinkKeyCommand>> ELSE << >>
       /\ pc' = IF resync THEN "wait_delete" ELSE "dispatch"
       /\ fired' = IF resync THEN [fired EXCEPT ![HCI_CMD_RESET] = @ + 1] ELSE fired
  /\ next_id' = next_id + 1
  /\ reset_pending' = "none"
  /\ UNCHANGED <<raceVars, deviceVars, s_link_keys, fakeVars, syncVars, transfers, replies,
                 last_reply, noticeVars, trig, fakeHistory>>

\* IOCtlV, after WaitForHCICommandComplete(delete) returned: SendHCIStoreLinkKeyCommand
\* and, when it sent the keys, the second wait.
IOCtlVStoreKeys ==
  /\ pc = "wait_delete"
  /\ \E seen \in RaceOutcomes(s_link_keys, libusb_access = "upsert") :
       sync_sent' = IF seen = EmptyStore THEN sync_sent
                    ELSE Append(sync_sent, StoreLinkKeyCommand(seen))
  /\ pc' = "dispatch"
  /\ owner_access' = "none"
  /\ UNCHANGED <<libusb_access, deviceVars, s_link_keys, s_need_reset_keys, fakeVars, syncVars, cur,
                 next_id, transfers, replies, last_reply, noticeVars, trig, fired,
                 fakeHistory, reset_pending>>

\* IOCtlV, control message: what the opcode checks decide.
CtrlRoute(opcode, is_wii) ==
  IF opcode = HCI_CMD_READ_BUFFER_SIZE THEN "fake_read_buffer_size"
  ELSE IF ~is_wii /\ (opcode = VENDOR_CMD_FC4C \/ opcode = VENDOR_CMD_FC4F) THEN "fake_vendor"
  ELSE "submit"

\* A faulty variant of DeleteStoredLinkKey: the delete-all flag is not looked at.
DeleteStoredLinkKey_OneOnly(store, delete_all, bdaddr) == MapErase(store, bdaddr)

\* IOCtlV, delete-stored-link-key: s_link_keys after the command's own deletion.
DeleteStoredLinkKey(store, delete_all, bdaddr) ==
  IF delete_all # 0 THEN EmptyStore ELSE MapErase(store, bdaddr)

\* A faulty variant of IntrRoute: the latches are checked before the sync button.
IntrRoute_LatchesFirst(sync_state, fake_read_buffer_size, fake_vendor) ==
  IF fake_read_buffer_size THEN "fake_read_buffer_size"
  ELSE IF fake_vendor THEN "fake_vendor"
  ELSE IF sync_state = "Pressed" THEN "sync_pressed"
  ELSE IF sync_state = "LongPressed" THEN "sync_held"
  ELSE "submit"

\* A faulty variant of IntrRoute: the vendor latch is checked before the read-buffer-size latch.
IntrRoute_VendorFirst(sync_state, fake_read_buffer_size, fake_vendor) ==
  IF sync_state = "Pressed" THEN "sync_pressed"
  ELSE IF sync_state = "LongPressed" THEN "sync_held"
  ELSE IF fake_vendor THEN "fake_vendor"
  ELSE IF fake_read_buffer_size THEN "fake_read_buffer_size"
  ELSE "submit"

\* IOCtlV, interrupt message: the first check that applies, in the order of the code.
IntrRoute(sync_state, fake_read_buffer_size, fake_vendor) ==
  IF sync_state = "Pressed" THEN "sync_pressed"
  ELSE IF sync_state = "LongPressed" THEN "sync_held"
  ELSE IF fake_read_buffer_size THEN "fake_read_buffer_size"
  ELSE IF fake_vendor THEN "fake_vendor"
  ELSE "submit"

\* BluetoothReal::FakeSyncButtonEvent, as the reply the guest gets.
FakeSyncButtonEvent(id, payload) ==
  [id |-> id, from |-> "FakeSyncButtonEvent", event |-> HCI_EVENT_VENDOR, opcode |-> 0,
   payload |-> payload,
   size |-> "sizeof(hci_event_hdr_t) + 1"]

\* BluetoothReal::FakeReadBufferSizeReply
FakeReadBufferSizeReply(id) ==
  [id |-> id, from |-> "FakeReadBufferSizeReply", event |-> HCI_EVENT_COMMAND_COMPL,
   opcode |-> HCI_CMD_READ_BUFFER_SIZE,
   payload |-> ReadBufferSizeConstants,
   size |-> "sizeof(SHCIEventCommand) + sizeof(hci_read_buffer_size_rp)"]

\* BluetoothReal::FakeVendorCommandReply
FakeVendorCommandReply(id, reply_opcode) ==
  [id |-> id, from |-> "FakeVendorCommandReply", event |-> HCI_EVENT_COMMAND_COMPL,
   opcode |-> reply_opcode,
   payload |-> "none", size |-> "sizeof(SHCIEventCommand)"]

\* A faulty variant of TransportReply: the byte count is always 0.
TransportReply_NoBytes(id, actual_length) ==
  [id |-> id, from |-> "callback", event |-> "adapter", opcode |-> 0, payload |-> "adapter",
   size |-> 0]

\* The reply of a completion callback: the adapter's bytes, tr->actual_length of them.
TransportReply(id, actual_length) ==
  [id |-> id, from |-> "callback", event |-> "adapter", opcode |-> 0, payload |-> "adapter",
   size |-> actual_length]

\* The reply IOCtlV synthesizes on a route that answers at once.
FakeReply(route, id, reply_opcode) ==
  CASE route = "sync_pressed" -> FakeSyncButtonEvent(id, SYNC_PRESSED_PAYLOAD)
    [] route = "sync_held" -> FakeSyncButtonEvent(id, SYNC_HELD_PAYLOAD)
    [] route = "fake_read_buffer_size" -> FakeReadBufferSizeReply(id)
    [] route = "fake_vendor" -> FakeVendorCommandReply(id, reply_opcode)

Submitted(id, type, endpoint) == [id |-> id, type |-> type, endpoint |-> endpoint]

\* IOCtlV, case IOCTLV_USBV0_CTRLMSG.
DispatchCtrl ==
  LET route == CtrlRoute(cur.opcode, m_is_wii_bt_module) IN
  /\ m_fake_read_buffer_size_reply' =
       IF route = "fake_read_buffer_size" THEN TRUE ELSE m_fake_read_buffer_size_reply
  /\ m_fake_vendor_command_reply' =
       IF route = "fake_vendor" THEN TRUE ELSE m_fake_vendor_command_reply
  /\ m_fake_vendor_command_reply_opcode' =
       IF route = "fake_vendor" THEN cur.opcode ELSE m_fake_vendor_command_reply_opcode
  /\ s_link_keys' \in
       IF route = "submit" /\ cur.opcode = HCI_CMD_DELETE_STORED_LINK_KEY
       THEN RaceOutcomes(DeleteStoredLinkKey(s_link_keys, cur.delete_all, cur.bdaddr),
                         libusb_access = "upsert")
       ELSE {s_link_keys}
  /\ transfers' =
       IF route = "submit" THEN transfers \cup {Submitted(cur.id, "ctrl", cur.endpoint)}
       ELSE transfers
  /\ UNCHANGED <<syncVars, replies, last_reply, fired>>
  \* history
  /\ trig' = IF cur.opcode = HCI_CMD_READ_BUFFER_SIZE
                \/ (cur.opcode \in VendorOpcodes /\ ~m_is_wii_bt_module)
             THEN [trig EXCEPT ![cur.opcode] = @ + 1] ELSE trig
  /\ rbs_since_intr' = (rbs_since_intr \/ cur.opcode = HCI_CMD_READ_BUFFER_SIZE)
  /\ rbs_owed' = (rbs_owed \/ cur.opcode = HCI_CMD_READ_BUFFER_SIZE)

\* IOCtlV, cases IOCTLV_USBV0_BLKMSG and IOCTLV_USBV0_INTRMSG.
DispatchBlkIntr ==
  LET route == IF cur.kind = "intr"
               THEN IntrRoute(m_sync_button_state, m_fake_read_buffer_size_reply,
                              m_fake_vendor_command_reply)
               ELSE "submit"
  IN
  /\ m_sync_button_state' =
       IF route \in {"sync_pressed", "sync_held"} THEN "Ignored" ELSE m_sync_button_state
  /\ held_ms' = IF route \in {"sync_pressed", "sync_held"} THEN 0 ELSE held_ms
  /\ m_fake_read_buffer_size_reply' =
       AfterTestAndClear(m_fake_read_buffer_size_reply, route = "fake_read_buffer_size")
  /\ m_fake_vendor_command_reply' =
       AfterTestAndClear(m_fake_vendor_command_reply, route = "fake_vendor")
  /\ IF route = "submit"
     THEN /\ transfers' = transfers \cup {Submitted(cur.id, cur.kind, cur.endpoint)}
          /\ UNCHANGED <<replies, last_reply>>
     ELSE /\ replies' = [replies EXCEPT ![cur.id] = @ + 1]
          /\ last_reply' = FakeReply(route, cur.id, m_fake_vendor_command_reply_opcode)
          /\ UNCHANGED transfers
  /\ UNCHANGED <<s_link_keys, m_fake_vendor_command_reply_opcode, trig>>
  \* history
  /\ fired' = IF route = "fake_read_buffer_size"
              THEN [fired EXCEPT ![HCI_CMD_READ_BUFFER_SIZE] = @ + 1]
              ELSE IF route = "fake_vendor"
                      /\ m_fake_vendor_command_reply_opcode \in VendorOpcodes
              THEN [fired EXCEPT ![m_fake_vendor_command_reply_opcode] = @ + 1]
              ELSE fired
  /\ rbs_since_intr' = IF cur.kind = "intr" THEN FALSE ELSE rbs_since_intr
  /\ rbs_owed' = IF cur.kind = "intr" /\ m_sync_button_state \notin {"Pressed", "LongPressed"}
                 THEN FALSE ELSE rbs_owed

\* IOCtlV, the switch on the request, to its return.
IOCtlVDispatch ==
  /\ pc = "dispatch"
  /\ IF cur.kind = "ctrl" THEN DispatchCtrl ELSE DispatchBlkIntr
  /\ pc' = "idle"
  /\ cur' = NoRequest
  /\ sync_sent' = << >>
  /\ owner_access' = "none"
  /\ UNCHANGED <<libusb_access, deviceVars, s_need_reset_keys, next_id, noticeVars,
                 reset_pending>>

(***************************************************************************)
(* The completion callbacks (libusb thread).                               *)
(***************************************************************************)
\* CommandCallback: the statuses it reports as a failed transfer.
CommandFailed(status) == status # "COMPLETED" /\ status # "NO_DEVICE"

\* TransferCallback: the statuses it reports as a failed transfer.
TransferFailed(status) ==
  status # "COMPLETED" /\ status # "TIMED_OUT" /\ status # "NO_DEVICE"

\* A faulty variant of FailureNotice: a completion that is no failure leaves the latch alone.
FailureNotice_NeverCleared(failed, showed) ==
  IF failed
  THEN [notice |-> ~showed, showed |-> TRUE]
  ELSE [notice |-> FALSE, showed |-> showed]

\* Both callbacks: whether the notice is displayed, and s_showed_failed_transfer after.
FailureNotice(failed, showed) ==
  IF failed
  THEN [notice |-> ~showed, showed |-> TRUE]
  ELSE [notice |-> FALSE, showed |-> FALSE]

\* A faulty variant of TransferCallbackLinkKeys: the status is not looked at.
TransferCallbackLinkKeys_AnyStatus(store, status, endpoint, ev) ==
  IF endpoint = HCI_EVENT /\ ev.event = HCI_EVENT_LINK_KEY_NOTIFICATION
  THEN MapSet(store, ev.bdaddr, ev.key)
  ELSE store

\* TransferCallback: s_link_keys after it has looked at the buffer.
TransferCallbackLinkKeys(store, status, endpoint, ev) ==
  IF status = "COMPLETED" /\ endpoint = HCI_EVENT
     /\ ev.event = HCI_EVENT_LINK_KEY_NOTIFICATION
  THEN MapSet(store, ev.bdaddr, ev.key)
  ELSE store

\* TransferCallback: s_need_reset_keys after it has looked at the buffer.
TransferCallbackNeedReset(need_reset, status, endpoint, ev) ==
  IF status = "COMPLETED" /\ endpoint = HCI_EVENT
     /\ ev.event # HCI_EVENT_LINK_KEY_NOTIFICATION
     /\ ev.event = HCI_EVENT_COMMAND_COMPL /\ ev.opcode = HCI_CMD_RESET
  THEN TRUE
  ELSE need_reset

\* History: a completion the amended notice rule counts as a failure.
CountsAsFailure(type, status) ==
  IF type = "ctrl" THEN status \notin {"COMPLETED", "NO_DEVICE"}
  ELSE status \notin {"COMPLETED", "TIMED_OUT", "NO_DEVICE"}

\* What both callbacks do with the notice latch, and the history of it.
Completion(t, status, failed, actual_length) ==
  LET r == FailureNotice(failed, s_showed_failed_transfer) IN
  /\ s_showed_failed_transfer' = r.showed
  /\ last_completion' =
       [status |-> status, type |-> IF t.type = "ctrl" THEN "ctrl" ELSE "data",
        notice |-> r.notice, actual_length |-> actual_length]
  /\ notice_since_success' =
       IF status = "COMPLETED" THEN FALSE ELSE (notice_since_success \/ r.notice)
  /\ notice_since_clear' =
       IF CountsAsFailure(t.type, status) THEN (notice_since_clear \/ r.notice) ELSE FALSE
  /\ replies' = [replies EXCEPT ![t.id] = @ + 1]
  /\ last_reply' = TransportReply(t.id, actual_length)
  /\ transfers' = transfers \ {t}

\* BluetoothReal::CommandCallback
CommandCallback(t, status, actual_length) ==
  /\ session = "open"
  /\ libusb_access = "none"
  /\ t \in transfers
  /\ t.type = "ctrl"
  /\ Completion(t, status, CommandFailed(status), actual_length)
  /\ UNCHANGED <<raceVars, deviceVars, s_link_keys, s_need_reset_keys, fakeVars, syncVars,
                 requestVars, trig, fired, fakeHistory, reset_pending>>

\* BluetoothReal::TransferCallback
TransferCallback(t, status, ev, actual_length) ==
  /\ session = "open"
  /\ t \in transfers
  /\ t.type \in {"blk", "intr"}
  /\ Completion(t, status, TransferFailed(status), actual_length)
  /\ libusb_access = "upsert"
       => (status = "COMPLETED" /\ t.endpoint = HCI_EVENT
           /\ ev.event = HCI_EVENT_LINK_KEY_NOTIFICATION)
  /\ s_link_keys' \in
       RaceOutcomes(TransferCallbackLinkKeys(s_link_keys, status, t.endpoint, ev),
                    owner_access # "none"
                      /\ TransferCallbackLinkKeys(s_link_keys, status, t.endpoint, ev)
                           # s_link_keys)
  /\ libusb_access' = "none"
  /\ s_need_reset_keys' = TransferCallbackNeedReset(s_need_reset_keys, status, t.endpoint, ev)
  /\ LET reset_seen == /\ status = "COMPLETED"
                       /\ t.endpoint = HCI_EVENT
                       /\ ev.event = HCI_EVENT_COMMAND_COMPL
                       /\ ev.opcode = HCI_CMD_RESET
     IN  /\ trig' = IF reset_seen THEN [trig EXCEPT ![HCI_CMD_RESET] = @ + 1] ELSE trig
         /\ reset_pending' =
              IF ~reset_seen THEN reset_pending
              ELSE IF s_link_keys # EmptyStore \/ reset_pending = "keys" THEN "keys"
              ELSE "empty"
  /\ UNCHANGED <<owner_access, deviceVars, fakeVars, syncVars, requestVars, fired,
                 fakeHistory>>

\* The owning thread is inside s_link_keys.clear() or erase() of IOCtlV.
IOCtlVEnterDelete ==
  /\ pc = "dispatch"
  /\ cur.kind = "ctrl"
  /\ cur.opcode = HCI_CMD_DELETE_STORED_LINK_KEY
  /\ owner_access = "none"
  /\ owner_access' = "delete"
  /\ UNCHANGED <<libusb_access, deviceVars, s_link_keys, s_need_reset_keys, fakeVars,
                 syncVars, requestVars, transfers, replies, last_reply, noticeVars, trig,
                 fired, fakeHistory, reset_pending>>

\* The owning thread is inside the loop over s_link_keys of SendHCIStoreLinkKeyCommand.
SendHCIStoreLinkKeyCommandEnterLoop ==
  /\ pc = "wait_delete"
  /\ s_link_keys # EmptyStore
  /\ owner_access = "none"
  /\ owner_access' = "iterate"
  /\ UNCHANGED <<libusb_access, deviceVars, s_link_keys, s_need_reset_keys, fakeVars,
                 syncVars, requestVars, transfers, replies, last_reply, noticeVars, trig,
                 fired, fakeHistory, reset_pending>>

\* The libusb thread is inside s_link_keys[addr] = key of TransferCallback.
TransferCallbackEnterUpsert ==
  /\ session = "open"
  /\ \E t \in transfers : t.type \in {"blk", "intr"} /\ t.endpoint = HCI_EVENT
  /\ libusb_access = "none"
  /\ libusb_access' = "upsert"
  /\ UNCHANGED <<owner_access, deviceVars, s_link_keys, s_need_reset_keys, fakeVars,
                 syncVars, requestVars, transfers, replies, last_reply, noticeVars, trig,
                 fired, fakeHistory, reset_pending>>

(***************************************************************************)
(* The destructor.                                                         *)
(***************************************************************************)
\* BluetoothReal::StopTransferThread: the calls it makes.
StopTransferThread(thread_running) ==
  IF thread_running THEN <<"libusb_close", "m_thread.join">> ELSE << >>

\* BluetoothReal::~BluetoothReal: the calls it makes, in order.
DestructorCalls(handle, thread_running) ==
  (IF handle # "null"
   THEN <<"SendHCIResetCommand", "WaitForHCICommandComplete", "libusb_release_interface">>
          \o StopTransferThread(thread_running) \o <<"libusb_unref_device">>
   ELSE << >>)
    \o <<"libusb_exit", "SaveLinkKeys">>

\* BluetoothReal::~BluetoothReal: the adapter is reset and let go when the handle
\* is set, the library context released and SaveLinkKeys writes the
\* configuration text.
Shutdown ==
  /\ session \in {"constructed", "open", "closed"}
  /\ pc = "idle"
  /\ teardown' = DestructorCalls(m_handle, m_thread_running)
  /\ m_thread_running' = IF m_handle # "null" THEN FALSE ELSE m_thread_running
  /\ m_libusb_context' = "exited"
  /\ m_bt_passthrough_link_keys' = SaveLinkKeys(s_link_keys)
  /\ session' = "destroyed"
  /\ UNCHANGED <<m_is_wii_bt_module, s_link_keys, s_need_reset_keys, fakeVars, syncVars,
                 requestVars, transfers, replies, last_reply, noticeVars, trig, fired,
                 fakeHistory, reset_pending, m_handle, m_is_active, last_open,
                 last_do_state, waitVars, raceVars>>

(***************************************************************************)
(* WaitForHCICommandComplete, poll by poll, and its callers.               *)
(***************************************************************************)
\* What is left untouched by the steps of a wait and by the code around it.
bridgeVars ==
  <<m_is_wii_bt_module, s_link_keys, s_need_reset_keys, fakeVars, syncVars, cur, next_id,
    transfers, replies, last_reply, noticeVars, trig, fired, fakeHistory, reset_pending,
    raceVars, m_handle, m_is_active, last_open, last_do_state>>

\* The positions of the owning thread at a call of WaitForHCICommandComplete, the
\* opcode each call passes and the position after its return.
WaitCalls ==
  {[pc |-> "wait_delete", opcode |-> HCI_CMD_DELETE_STORED_LINK_KEY, return |-> "delete_waited"],
   [pc |-> "wait_write", opcode |-> HCI_CMD_WRITE_STORED_LINK_KEY, return |-> "dispatch"],
   [pc |-> "wait_reset", opcode |-> HCI_CMD_RESET, return |-> "reset_waited"]}

WaitReturn(at) == (CHOOSE c \in WaitCalls : c.pc = at).return

\* What one libusb_interrupt_transfer with its 20 ms timeout gives the loop: the
\* awaited command complete, another event, nothing in time (also when the
\* transfer thread's own transfer received the event), or an error.
PollOutcomes == {"awaited", "other_event", "timeout", "error"}

\* A faulty variant of KeepPolling: one more transfer is tried.
KeepPolling_OneMore(n) == n <= MaxTries

\* WaitForHCICommandComplete: the loop condition.
KeepPolling(n) == n < MaxTries

\* WaitForHCICommandComplete: entry, int tries = 0.
WaitForHCICommandCompleteEnter ==
  /\ wait_opcode = 0
  /\ \E c \in WaitCalls : c.pc = pc /\ wait_opcode' = c.opcode
  /\ tries' = 0
  /\ polls' = 0
  /\ UNCHANGED <<bridgeVars, session, pc, sync_sent, m_bt_passthrough_link_keys,
                 m_thread_running, m_libusb_context, teardown>>

\* WaitForHCICommandComplete: one turn of the loop; break on the awaited event,
\* ++tries otherwise.
WaitForHCICommandCompletePoll(outcome) ==
  /\ wait_opcode # 0
  /\ KeepPolling(tries)
  /\ polls' = polls + 1
  /\ IF outcome = "awaited"
     THEN /\ wait_opcode' = 0
          /\ pc' = WaitReturn(pc)
          /\ tries' = tries
     ELSE /\ tries' = tries + 1
          /\ UNCHANGED <<wait_opcode, pc>>
  /\ UNCHANGED <<bridgeVars, session, sync_sent, m_bt_passthrough_link_keys,
                 m_thread_running, m_libusb_context, teardown>>

\* WaitForHCICommandComplete: the loop condition fails and the function returns.
WaitForHCICommandCompleteGiveUp ==
  /\ wait_opcode # 0
  /\ ~KeepPolling(tries)
  /\ wait_opcode' = 0
  /\ pc' = WaitReturn(pc)
  /\ UNCHANGED <<bridgeVars, session, sync_sent, m_bt_passthrough_link_keys,
                 m_thread_running, m_libusb_context, teardown, tries, polls>>

\* IOCtlV between its two waits: SendHCIStoreLinkKeyCommand.
IOCtlVSendStoreKeys ==
  /\ pc = "delete_waited"
  /\ sync_sent' = IF s_link_keys = EmptyStore THEN sync_sent
                  ELSE Append(sync_sent, StoreLinkKeyCommand(s_link_keys))
  /\ pc' = IF s_link_keys = EmptyStore THEN "dispatch" ELSE "wait_write"
  /\ UNCHANGED <<bridgeVars, session, m_bt_passthrough_link_keys, m_thread_running,
                 m_libusb_context, teardown, waitVars>>

\* ~BluetoothReal with a handle, up to its WaitForHCICommandComplete.
DestructorSendReset ==
  /\ session = "open"
  /\ pc = "idle"
  /\ m_handle # "null"
  /\ teardown' = <<"SendHCIResetCommand">>
  /\ session' = "destroying"
  /\ pc' = "wait_reset"
  /\ UNCHANGED <<bridgeVars, sync_sent, m_bt_passthrough_link_keys, m_thread_running,
                 m_libusb_context, waitVars>>

\* ~BluetoothReal after the wait returned.
DestructorRelease ==
  /\ pc = "reset_waited"
  /\ teardown' = DestructorCalls(m_handle, m_thread_running)
  /\ m_thread_running' = FALSE
  /\ m_libusb_context' = "exited"
  /\ m_bt_passthrough_link_keys' = SaveLinkKeys(s_link_keys)
  /\ session' = "destroyed"
  /\ pc' = "idle"
  /\ UNCHANGED <<bridgeVars, sync_sent, waitVars>>


(***************************************************************************)
(* The constructor: LoadLinkKeys with what its unwritten and overrun bytes *)
(* may hold.                                                               *)
(***************************************************************************)
\* Values a byte that was never written, or one that was overrun, is seen with.
StaleBytes == {0, 204}

\* LoadLinkKeys, one pair: the stores it may leave.  The bytes of key the text
\* does not reach hold whatever the stack held; a key text of more than 16 pairs
\* makes key[pos++] write past the end of key, which may also change address.
LoadPairOutcomes(pair, store) ==
  LET index == Find(pair, "=") IN
  IF index = 0 THEN {store}
  ELSE LET address == LoadAddress(SubSeq(pair, 1, index - 1))
           key == LoadPair(pair, EmptyStore)[address]
           overrun == (Len(pair) - index + 1) \div 2 > LINK_KEY_SIZE
           keys == {[pos \in 1..LINK_KEY_SIZE |->
                       IF key[pos] = Indeterminate THEN b ELSE key[pos]] : b \in StaleBytes}
           addresses == {address}
                          \cup (IF overrun
                                THEN {[i \in 1..MAC_ADDRESS_SIZE |-> b] : b \in StaleBytes}
                                ELSE {})
       IN  {MapSet(store, a, k) : a \in addresses, k \in keys}

RECURSIVE LoadPairsOutcomes(_, _)
LoadPairsOutcomes(pairs, stores) ==
  IF pairs = << >> THEN stores
  ELSE LoadPairsOutcomes(Tail(pairs),
                         UNION {LoadPairOutcomes(Head(pairs), store) : store \in stores})

\* BluetoothReal::LoadLinkKeys: the stores it may leave.
LoadLinkKeysOutcomes(entries, store) ==
  IF entries = << >> THEN {store}
  ELSE LoadPairsOutcomes(SplitString(entries, ","), {store})

\* BluetoothReal::BluetoothReal: libusb_init and LoadLinkKeys.
Constructor ==
  /\ session = "unconstructed"
  /\ s_link_keys' \in LoadLinkKeysOutcomes(m_bt_passthrough_link_keys, s_link_keys)
  /\ session' = "constructed"
  /\ UNCHANGED <<m_is_wii_bt_module, s_need_reset_keys, fakeVars, syncVars, requestVars,
                 transfers, replies, last_reply, noticeVars, trig, fired, fakeHistory,
                 reset_pending, m_bt_passthrough_link_keys, lifeVars, waitVars, raceVars>>

(***************************************************************************)
(* Open, Close and DoState.                                                *)
(***************************************************************************)
\* What Open sees of a device: whether its active configuration can be read,
\* whether interface 0 is of the wireless class with the Bluetooth subclass and
\* protocol, its ids, and how far libusb lets OpenDevice get with it.
Devices ==
  {[config_ok |-> TRUE, bluetooth |-> TRUE, idVendor |-> id[1], idProduct |-> id[2],
    libusb |-> l] :
     id \in {<<WII_BT_VENDOR_ID, WII_BT_PRODUCT_ID>>, <<2578, 1>>},
     l \in {"ok", "open_fails", "claim_fails"}}
  \cup {[config_ok |-> TRUE, bluetooth |-> FALSE, idVendor |-> id[1], idProduct |-> id[2],
         libusb |-> "ok"] :
          id \in {<<WII_BT_VENDOR_ID, WII_BT_PRODUCT_ID>>, <<2578, 1>>}}
  \cup {[config_ok |-> FALSE, bluetooth |-> TRUE, idVendor |-> 2578, idProduct |-> 1,
         libusb |-> "ok"]}

RECURSIVE DeviceListsOf(_)
DeviceListsOf(n) ==
  IF n = 0 THEN {<< >>}
  ELSE DeviceListsOf(n - 1)
         \cup {Append(l, d) : l \in {x \in DeviceListsOf(n - 1) : Len(x) = n - 1}, d \in Devices}

DeviceLists == DeviceListsOf(MaxDevices)

\* m_bt_passthrough_vid and m_bt_passthrough_pid: -1 when not set.
ConfiguredVids == {-1, WII_BT_VENDOR_ID}
ConfiguredPids == {-1, WII_BT_PRODUCT_ID}

\* IsWantedDevice
IsWantedDevice(descriptor, vid, pid) ==
  IF vid = -1 \/ pid = -1 THEN TRUE
  ELSE descriptor.idVendor = vid /\ descriptor.idProduct = pid

\* IsBluetoothDevice
IsBluetoothDevice(descriptor, vid, pid) ==
  IF vid # -1 /\ pid # -1 THEN TRUE
  ELSE descriptor.bluetooth

\* BluetoothReal::OpenDevice: what it returns and what it leaves in m_handle.
\* libusb_open writes the handle when it succeeds; a failure after that returns
\* false and leaves the handle as it is.
OpenDevice(device, handle) ==
  IF device.libusb = "open_fails" THEN [ok |-> FALSE, handle |-> handle]
  ELSE IF device.libusb = "claim_fails" THEN [ok |-> FALSE, handle |-> "unclaimed"]
  ELSE [ok |-> TRUE, handle |-> "claimed"]

\* BluetoothReal::Open, the loop over the device list from device i on: m_handle
\* and m_is_wii_bt_module when it ends.
RECURSIVE OpenLoop(_, _, _, _, _, _)
OpenLoop(devices, i, vid, pid, handle, is_wii) ==
  IF i > Len(devices) THEN [handle |-> handle, is_wii |-> is_wii]
  ELSE LET device == devices[i] IN
       IF ~device.config_ok THEN OpenLoop(devices, i + 1, vid, pid, handle, is_wii)
       ELSE IF IsBluetoothDevice(device, vid, pid) /\ IsWantedDevice(device, vid, pid)
       THEN LET r == OpenDevice(device, handle) IN
            IF r.ok
            THEN [handle |-> r.handle,
                  is_wii |-> (device.idVendor = WII_BT_VENDOR_ID
                                /\ device.idProduct = WII_BT_PRODUCT_ID)]
            ELSE OpenLoop(devices, i + 1, vid, pid, r.handle, is_wii)
       ELSE OpenLoop(devices, i + 1, vid, pid, handle, is_wii)

\* BluetoothReal::Open, after the loop: what it returns.
OpenReturn(handle) == IF handle = "null" THEN "IPC_ENOENT" ELSE "IPC_SUCCESS"

\* BluetoothReal::Open
Open(devices, vid, pid) ==
  /\ session = "constructed"
  /\ LET r == OpenLoop(devices, 1, vid, pid, m_handle, m_is_wii_bt_module)
         ret == OpenReturn(r.handle)
     IN  /\ m_handle' = r.handle
         /\ m_is_wii_bt_module' = r.is_wii
         /\ m_thread_running' = IF ret = "IPC_SUCCESS" THEN TRUE ELSE m_thread_running
         /\ m_is_active' = IF ret = "IPC_SUCCESS" THEN TRUE ELSE m_is_active
         /\ session' = IF ret = "IPC_SUCCESS" THEN "open" ELSE "stopped"
         /\ last_open' = [devices |-> devices, vid |-> vid, pid |-> pid, ret |-> ret]
  /\ UNCHANGED <<m_bt_passthrough_link_keys, m_libusb_context, teardown, last_do_state,
                 waitVars, raceVars, s_link_keys, s_need_reset_keys, fakeVars, syncVars,
                 requestVars, transfers, replies, last_reply, noticeVars, trig, fired,
                 fakeHistory, reset_pending>>

\* A faulty variant of CloseCalls: the thread is stopped after the device is let go.
CloseCalls_UnrefFirst(handle, thread_running) ==
  IF handle # "null"
  THEN <<"libusb_release_interface", "libusb_unref_device">>
         \o StopTransferThread(thread_running)
  ELSE << >>

\* BluetoothReal::Close: the calls it makes, in order.
CloseCalls(handle, thread_running) ==
  IF handle # "null"
  THEN <<"libusb_release_interface">> \o StopTransferThread(thread_running)
         \o <<"libusb_unref_device">>
  ELSE << >>

\* BluetoothReal::Close
Close ==
  /\ session = "open"
  /\ pc = "idle"
  /\ teardown' = CloseCalls(m_handle, m_thread_running)
  /\ m_thread_running' = IF m_handle # "null" THEN FALSE ELSE m_thread_running
  /\ m_handle' = "null"
  /\ m_is_active' = FALSE
  /\ session' = "closed"
  /\ UNCHANGED <<m_is_wii_bt_module, m_bt_passthrough_link_keys, m_libusb_context,
                 last_open, last_do_state, waitVars, raceVars, s_link_keys,
                 s_need_reset_keys, fakeVars, syncVars, requestVars, transfers, replies,
                 last_reply, noticeVars, trig, fired, fakeHistory, reset_pending>>

\* PointerWrap modes.
PointerWrapModes == {"MODE_READ", "MODE_WRITE", "MODE_MEASURE", "MODE_VERIFY"}

\* A faulty variant of DoStateAborts: the stored flag is not looked at.
DoStateAborts_AnyFlag(mode, passthrough_bluetooth) == mode = "MODE_READ"

\* BluetoothReal::DoState: whether it switches the reader out of read mode.
DoStateAborts(mode, passthrough_bluetooth) ==
  ~passthrough_bluetooth /\ mode = "MODE_READ"

\* BluetoothReal::DoState, given the mode and the flag stored in the state:
\* p.Do reads the stored flag in read mode and leaves the local true otherwise.
DoState(mode, stored) ==
  /\ session = "open"
  /\ pc = "idle"
  /\ LET passthrough_bluetooth == IF mode = "MODE_READ" THEN stored ELSE TRUE IN
       last_do_state' =
         [mode |-> mode, stored |-> stored, warned |-> (mode = "MODE_READ"),
          mode_after |-> IF DoStateAborts(mode, passthrough_bluetooth)
                         THEN "MODE_VERIFY" ELSE mode]
  /\ UNCHANGED <<m_is_wii_bt_module, m_bt_passthrough_link_keys, session, m_handle,
                 m_is_active, m_thread_running, m_libusb_context, teardown, last_open,
                 waitVars, raceVars, s_link_keys, s_need_reset_keys, fakeVars, syncVars,
                 requestVars, transfers, replies, last_reply, noticeVars, trig, fired,
                 fakeHistory, reset_pending>>


(***************************************************************************)
(* Specifications.  Each runs the same program against a part of its       *)
(* environment: the sync button, the notice latch and the configuration    *)
(* text do not act on one another, and a specification that drives only    *)
(* one of them keeps the state space small enough to raise the bounds.     *)
(* SpecAll drives everything at once.                                      *)
(***************************************************************************)
\* Statuses that leave the notice latch alone.
QuietStatuses == {"COMPLETED", "NO_DEVICE"}

\* Requests that go to the adapter whatever it is.
ForwardedRequests ==
  {r \in Requests : r.kind # "ctrl" \/ r.opcode = HCI_CMD_RESET}

\* Requests that raise or consume a fake-reply latch, and bulk requests.
LatchRequests ==
  {r \in Requests : r.kind # "ctrl" \/ r.opcode = HCI_CMD_READ_BUFFER_SIZE
                                   \/ r.opcode \in VendorOpcodes}

\* Requests that touch the link key store, and those that fetch events.
KeyRequests ==
  {r \in Requests : r.kind = "intr" \/ r.opcode = HCI_CMD_DELETE_STORED_LINK_KEY}

\* The bridge: every request, completions that succeed or find the device gone.
Next ==
  \/ \E req \in Requests : IOCtlVBegin(req)
  \/ IOCtlVStoreKeys
  \/ IOCtlVDispatch
  \/ \E t \in transfers, status \in QuietStatuses : CommandCallback(t, status, SomeBytes)
  \/ \E t \in transfers, status \in QuietStatuses, ev \in AdapterEvents :
       TransferCallback(t, status, ev, SomeBytes)

Spec == Init /\ [][Next]_vars

\* The sync button with the requests that consume its events and the latches
\* that share the interrupt path with it.
NextSync ==
  \/ \E is_held \in BOOLEAN : UpdateSyncButton(is_held)
  \/ Tick
  \/ TriggerSyncButtonPressedEvent
  \/ TriggerSyncButtonHeldEvent
  \/ \E req \in LatchRequests : IOCtlVBegin(req)
  \/ IOCtlVStoreKeys
  \/ IOCtlVDispatch
  \/ \E t \in transfers, ev \in AdapterEvents :
       TransferCallback(t, "COMPLETED", ev, SomeBytes)

SpecSync == Init /\ [][NextSync]_vars

\* The link key store from start to the configuration text the destructor writes.
NextKeys ==
  \/ \E req \in KeyRequests : IOCtlVBegin(req)
  \/ IOCtlVStoreKeys
  \/ IOCtlVDispatch
  \/ \E t \in transfers : CommandCallback(t, "COMPLETED", SomeBytes)
  \/ \E t \in transfers, ev \in AdapterEvents :
       TransferCallback(t, "COMPLETED", ev, SomeBytes)
  \/ Shutdown

SpecKeys == Init /\ [][NextKeys]_vars

\* The two threads around the link key store: the owning thread in IOCtlV and in
\* SendHCIStoreLinkKeyCommand, the libusb thread in TransferCallback.
NextRace ==
  \/ \E req \in KeyRequests : IOCtlVBegin(req)
  \/ SendHCIStoreLinkKeyCommandEnterLoop
  \/ IOCtlVStoreKeys
  \/ IOCtlVEnterDelete
  \/ IOCtlVDispatch
  \/ TransferCallbackEnterUpsert
  \/ \E t \in transfers : CommandCallback(t, "COMPLETED", SomeBytes)
  \/ \E t \in transfers, ev \in AdapterEvents :
       TransferCallback(t, "COMPLETED", ev, SomeBytes)

SpecRace == Init /\ [][NextRace]_vars

\* A session with a third-party adapter in which a command complete for reset
\* has raised the latch: the next request resynchronises the keys.
InitWait ==
  /\ m_is_wii_bt_module = FALSE
  /\ m_bt_passthrough_link_keys = InitialConfig
  /\ s_link_keys = LoadLinkKeys(InitialConfig, EmptyStore)
  /\ s_need_reset_keys = TRUE
  /\ s_showed_failed_transfer = FALSE
  /\ m_fake_read_buffer_size_reply = FALSE
  /\ m_fake_vendor_command_reply = FALSE
  /\ m_fake_vendor_command_reply_opcode = 0
  /\ m_sync_button_state = "Unpressed"
  /\ held_ms = 0
  /\ session = "open"
  /\ pc = "idle"
  /\ cur = NoRequest
  /\ next_id = 1
  /\ transfers = {}
  /\ sync_sent = << >>
  /\ replies = [i \in RequestIds |-> 0]
  /\ last_reply = NoReply
  /\ last_completion = NoCompletion
  /\ trig = [l \in LatchKeys |-> 0]
  /\ fired = [l \in LatchKeys |-> 0]
  /\ rbs_since_intr = FALSE
  /\ rbs_owed = FALSE
  /\ reset_pending = "none"
  /\ notice_since_success = FALSE
  /\ notice_since_clear = FALSE
  /\ m_handle = "claimed"
  /\ m_is_active = TRUE
  /\ m_thread_running = TRUE
  /\ m_libusb_context = "init"
  /\ teardown = << >>
  /\ last_open = NoOpen
  /\ last_do_state = NoDoState
  /\ wait_opcode = 0
  /\ tries = 0
  /\ polls = 0
  /\ owner_access = "none"
  /\ libusb_access = "none"

\* The resync of IOCtlV and the reset of the destructor with their waits poll by
\* poll.
NextWait ==
  \/ \E req \in {r \in Requests : r.kind = "intr"} : IOCtlVBegin(req)
  \/ WaitForHCICommandCompleteEnter
  \/ \E outcome \in PollOutcomes : WaitForHCICommandCompletePoll(outcome)
  \/ WaitForHCICommandCompleteGiveUp
  \/ IOCtlVSendStoreKeys
  \/ IOCtlVDispatch
  \/ DestructorSendReset
  \/ DestructorRelease

\* The owning thread goes on running through the resync and the wait of the
\* destructor: a transfer with a timeout returns, and the code after it is
\* executed.
WaitFairness ==
  WF_vars(\/ WaitForHCICommandCompleteEnter
          \/ \E outcome \in PollOutcomes : WaitForHCICommandCompletePoll(outcome)
          \/ WaitForHCICommandCompleteGiveUp
          \/ IOCtlVSendStoreKeys)

SpecWait == InitWait /\ [][NextWait]_vars /\ WaitFairness

\* The address of the i-th device paired in earlier sessions.
PairedAddr(i) == <<i, 0, 0, 0, 0, 0>>

\* The store after n devices were paired.
PairedStore(n) == [a \in {PairedAddr(i) : i \in 1..n} |-> Key1]

\* A session with a third-party adapter and the keys of up to MaxStoreSize paired
\* devices, in which a command complete for reset has raised the latch.
InitPacket ==
  /\ m_is_wii_bt_module = FALSE
  /\ m_bt_passthrough_link_keys = InitialConfig
  /\ s_link_keys \in {PairedStore(n) : n \in 0..MaxStoreSize}
  /\ s_need_reset_keys = TRUE
  /\ s_showed_failed_transfer = FALSE
  /\ m_fake_read_buffer_size_reply = FALSE
  /\ m_fake_vendor_command_reply = FALSE
  /\ m_fake_vendor_command_reply_opcode = 0
  /\ m_sync_button_state = "Unpressed"
  /\ held_ms = 0
  /\ session = "open"
  /\ pc = "idle"
  /\ cur = NoRequest
  /\ next_id = 1
  /\ transfers = {}
  /\ sync_sent = << >>
  /\ replies = [i \in RequestIds |-> 0]
  /\ last_reply = NoReply
  /\ last_completion = NoCompletion
  /\ trig = [l \in LatchKeys |-> 0]
  /\ fired = [l \in LatchKeys |-> 0]
  /\ rbs_since_intr = FALSE
  /\ rbs_owed = FALSE
  /\ reset_pending = "none"
  /\ notice_since_success = FALSE
  /\ notice_since_clear = FALSE
  /\ m_handle = "claimed"
  /\ m_is_active = TRUE
  /\ m_thread_running = TRUE
  /\ m_libusb_context = "init"
  /\ teardown = << >>
  /\ last_open = NoOpen
  /\ last_do_state = NoDoState
  /\ wait_opcode = 0
  /\ tries = 0
  /\ polls = 0
  /\ owner_access = "none"
  /\ libusb_access = "none"

\* The resync that sends the store to the adapter, and notifications that add to it.
NextPacket ==
  \/ \E req \in {r \in Requests : r.kind = "intr"} : IOCtlVBegin(req)
  \/ IOCtlVStoreKeys
  \/ IOCtlVDispatch
  \/ \E t \in transfers, ev \in AdapterEvents :
       TransferCallback(t, "COMPLETED", ev, SomeBytes)

SpecPacket == InitPacket /\ [][NextPacket]_vars

\* The text of an entry SaveLinkKeys wrote.
EntryText(addr, key) ==
  LET entry == SaveEntry(addr, key) IN SubSeq(entry, 1, Len(entry) - 1)

\* Entries a configuration text may hold: two written by SaveLinkKeys, and the
\* second of them without its '=', with a key of 2 pairs, with a key of 17
\* pairs, and with a pair that is no hex number.
ConfigEntries ==
  LET good == EntryText(Addr2, Key2)
      index == Find(good, "=")
  IN  {EntryText(Addr1, Key1),
       good,
       SubSeq(good, 1, index - 1) \o SubSeq(good, index + 1, Len(good)),
       SubSeq(good, 1, index + 4),
       good \o <<"a", "b">>,
       SubSeq(good, 1, index) \o <<"z", "z">> \o SubSeq(good, index + 3, Len(good))}

RECURSIVE JoinedEntries(_)
JoinedEntries(n) ==
  IF n = 0 THEN {<< >>}
  ELSE JoinedEntries(n - 1)
         \cup {(IF text = << >> THEN text ELSE text \o <<",">>) \o entry :
                 text \in JoinedEntries(n - 1), entry \in ConfigEntries}

\* The configuration texts: up to MaxEntries entries separated by ','.
ConfigTexts == JoinedEntries(MaxEntries)

\* Before construction, with any of the configuration texts.
InitLoad ==
  /\ m_is_wii_bt_module = FALSE
  /\ m_bt_passthrough_link_keys \in ConfigTexts
  /\ s_link_keys = EmptyStore
  /\ s_need_reset_keys = FALSE
  /\ s_showed_failed_transfer = FALSE
  /\ m_fake_read_buffer_size_reply = FALSE
  /\ m_fake_vendor_command_reply = FALSE
  /\ m_fake_vendor_command_reply_opcode = 0
  /\ m_sync_button_state = "Unpressed"
  /\ held_ms = 0
  /\ session = "unconstructed"
  /\ pc = "idle"
  /\ cur = NoRequest
  /\ next_id = 1
  /\ transfers = {}
  /\ sync_sent = << >>
  /\ replies = [i \in RequestIds |-> 0]
  /\ last_reply = NoReply
  /\ last_completion = NoCompletion
  /\ trig = [l \in LatchKeys |-> 0]
  /\ fired = [l \in LatchKeys |-> 0]
  /\ rbs_since_intr = FALSE
  /\ rbs_owed = FALSE
  /\ reset_pending = "none"
  /\ notice_since_success = FALSE
  /\ notice_since_clear = FALSE
  /\ m_handle = "null"
  /\ m_is_active = FALSE
  /\ m_thread_running = FALSE
  /\ m_libusb_context = "init"
  /\ teardown = << >>
  /\ last_open = NoOpen
  /\ last_do_state = NoDoState
  /\ wait_opcode = 0
  /\ tries = 0
  /\ polls = 0
  /\ owner_access = "none"
  /\ libusb_access = "none"

\* A session that is constructed and destroyed.
NextLoad ==
  \/ Constructor
  \/ Shutdown

SpecLoad == InitLoad /\ [][NextLoad]_vars

\* Bulk and interrupt transfers under every completion status and adapter event.
NextTransfers ==
  \/ \E req \in {r \in Requests : r.kind # "ctrl"} : IOCtlVBegin(req)
  \/ IOCtlVStoreKeys
  \/ IOCtlVDispatch
  \/ \E t \in transfers, status \in TransferStatuses, ev \in AdapterEvents :
       TransferCallback(t, status, ev, SomeBytes)

SpecTransfers == Init /\ [][NextTransfers]_vars

\* The notice latch under every completion status.
NextNotice ==
  \/ \E req \in ForwardedRequests : IOCtlVBegin(req)
  \/ IOCtlVStoreKeys
  \/ IOCtlVDispatch
  \/ \E t \in transfers, status \in CtrlStatuses, actual_length \in ActualLengths :
       CommandCallback(t, status, actual_length)
  \/ \E t \in transfers, status \in TransferStatuses, ev \in AdapterEvents,
          actual_length \in ActualLengths :
       TransferCallback(t, status, ev, actual_length)

SpecNotice == Init /\ [][NextNotice]_vars

\* Everything at once.
NextAll ==
  \/ \E is_held \in BOOLEAN : UpdateSyncButton(is_held)
  \/ Tick
  \/ TriggerSyncButtonPressedEvent
  \/ TriggerSyncButtonHeldEvent
  \/ \E req \in Requests : IOCtlVBegin(req)
  \/ IOCtlVStoreKeys
  \/ IOCtlVDispatch
  \/ \E t \in transfers, status \in CtrlStatuses, actual_length \in ActualLengths :
       CommandCallback(t, status, actual_length)
  \/ \E t \in transfers, status \in TransferStatuses, ev \in AdapterEvents,
          actual_length \in ActualLengths :
       TransferCallback(t, status, ev, actual_length)
  \/ Shutdown

SpecAll == Init /\ [][NextAll]_vars

\* The state after construction, before Open: no handle, no thread, no session.
InitConstructed ==
  /\ m_is_wii_bt_module = FALSE
  /\ m_bt_passthrough_link_keys = InitialConfig
  /\ s_link_keys = LoadLinkKeys(InitialConfig, EmptyStore)
  /\ s_need_reset_keys = FALSE
  /\ s_showed_failed_transfer = FALSE
  /\ m_fake_read_buffer_size_reply = FALSE
  /\ m_fake_vendor_command_reply = FALSE
  /\ m_fake_vendor_command_reply_opcode = 0
  /\ m_sync_button_state = "Unpressed"
  /\ held_ms = 0
  /\ session = "constructed"
  /\ pc = "idle"
  /\ cur = NoRequest
  /\ next_id = 1
  /\ transfers = {}
  /\ sync_sent = << >>
  /\ replies = [i \in RequestIds |-> 0]
  /\ last_reply = NoReply
  /\ last_completion = NoCompletion
  /\ trig = [l \in LatchKeys |-> 0]
  /\ fired = [l \in LatchKeys |-> 0]
  /\ rbs_since_intr = FALSE
  /\ rbs_owed = FALSE
  /\ reset_pending = "none"
  /\ notice_since_success = FALSE
  /\ notice_since_clear = FALSE
  /\ m_handle = "null"
  /\ m_is_active = FALSE
  /\ m_thread_running = FALSE
  /\ m_libusb_context = "init"
  /\ teardown = << >>
  /\ last_open = NoOpen
  /\ last_do_state = NoDoState
  /\ wait_opcode = 0
  /\ tries = 0
  /\ polls = 0
  /\ owner_access = "none"
  /\ libusb_access = "none"

\* The life of a session: Open with any device list, DoState, Close, the destructor.
NextLifecycle ==
  \/ \E devices \in DeviceLists, vid \in ConfiguredVids, pid \in ConfiguredPids :
       Open(devices, vid, pid)
  \/ \E mode \in PointerWrapModes, stored \in BOOLEAN : DoState(mode, stored)
  \/ Close
  \/ Shutdown

SpecLifecycle == InitConstructed /\ [][NextLifecycle]_vars

(***************************************************************************)
(* Claims.                                                                 *)
(***************************************************************************)
\* The step in which IOCtlV runs its switch and returns.
DispatchStep == pc = "dispatch" /\ pc' = "idle"

\* A step in which a completion callback runs.
CompletionStep == transfers' # transfers /\ transfers' \subseteq transfers

InFlight(id) == \E t \in transfers : t.id = id

\* C1: every request IOCtlV has returned from has exactly one reply once the
\* transport holds no transfer for it, and no request has more than one reply.
C1_ExactlyOneReply ==
  \A id \in RequestIds :
    /\ replies[id] <= 1
    /\ (id < next_id /\ cur.id # id /\ ~InFlight(id)) => replies[id] = 1

\* The reply a synthesized read-buffer-size command-complete event must be.
ReadBufferSizeReplyFor(id) ==
  [id |-> id, from |-> "FakeReadBufferSizeReply", event |-> HCI_EVENT_COMMAND_COMPL,
   opcode |-> HCI_CMD_READ_BUFFER_SIZE,
   payload |-> [status |-> 0, max_acl_size |-> "ACL_PKT_SIZE",
                num_acl_pkts |-> "ACL_PKT_NUM", max_sco_size |-> "SCO_PKT_SIZE",
                num_sco_pkts |-> "SCO_PKT_NUM"],
   size |-> "sizeof(SHCIEventCommand) + sizeof(hci_read_buffer_size_rp)"]

AnsweredWith(reply) ==
  /\ last_reply'.from = reply.from
  /\ last_reply' = reply
  /\ replies' = [replies EXCEPT ![cur.id] = 1]
  /\ transfers' = transfers

\* C2, as claimed: a read-buffer-size command is never submitted, and the next
\* interrupt request after it is answered with the synthesized read-buffer-size
\* command-complete event, on either kind of adapter.
C2_NextInterruptGetsBufferSize ==
  [][DispatchStep =>
       /\ (cur.kind = "ctrl" /\ cur.opcode = HCI_CMD_READ_BUFFER_SIZE)
            => (transfers' = transfers /\ replies' = replies)
       /\ (cur.kind = "intr" /\ rbs_since_intr)
            => AnsweredWith(ReadBufferSizeReplyFor(cur.id))]_vars

\* C2, amended: a read-buffer-size command is never submitted, and the first
\* interrupt request after it that finds the sync button neither Pressed nor
\* LongPressed is answered with the synthesized read-buffer-size command-complete
\* event, on either kind of adapter.
C2_FirstIdleInterruptGetsBufferSize ==
  [][DispatchStep =>
       /\ (cur.kind = "ctrl" /\ cur.opcode = HCI_CMD_READ_BUFFER_SIZE)
            => (transfers' = transfers /\ replies' = replies)
       /\ (cur.kind = "intr" /\ rbs_owed
             /\ m_sync_button_state \notin {"Pressed", "LongPressed"})
            => AnsweredWith(ReadBufferSizeReplyFor(cur.id))]_vars

\* C2, witness: a sync event was delivered first and the read-buffer-size reply
\* after it, to a later interrupt request.
C2_Witness ==
  /\ m_sync_button_state = "Ignored"
  /\ last_reply.from = "FakeReadBufferSizeReply"
  /\ last_reply.event = HCI_EVENT_COMMAND_COMPL
  /\ last_reply.opcode = HCI_CMD_READ_BUFFER_SIZE
  /\ last_reply.id >= 3
  /\ replies[last_reply.id] = 1

\* Vendor commands intercepted so far that have had, or have latched, a reply
\* carrying their own opcode.
VendorAnswered(o) ==
  fired[o] + (IF m_fake_vendor_command_reply /\ m_fake_vendor_command_reply_opcode = o
              THEN 1 ELSE 0)

\* C3, as claimed: on a third-party adapter a vendor command is not submitted and
\* every one of them gets a synthesized reply with its own opcode, also when
\* several are issued before the next interrupt request; on the first-party
\* adapter it is submitted and sets no latch.
C3_VendorReplyEchoesOpcode ==
  [][DispatchStep =>
       /\ (cur.kind = "ctrl" /\ cur.opcode \in VendorOpcodes /\ ~m_is_wii_bt_module)
            => transfers' = transfers
       /\ (cur.kind = "ctrl" /\ cur.opcode \in VendorOpcodes /\ m_is_wii_bt_module)
            => /\ transfers' = transfers \cup {[id |-> cur.id, type |-> "ctrl", endpoint |-> 0]}
               /\ ~m_fake_vendor_command_reply'
       /\ \A o \in VendorOpcodes : trig'[o] = VendorAnswered(o)']_vars

\* C4, as claimed: the request that follows a reset seen on a third-party adapter
\* while the store held keys sends delete-all and then write-stored-link-keys
\* before it is submitted or answered, once per reset seen.
C4_ResyncAfterReset ==
  /\ pc \in {"wait_delete", "dispatch"} => (replies[cur.id] = 0 /\ ~InFlight(cur.id))
  /\ (pc = "dispatch" /\ ~m_is_wii_bt_module /\ cur.after_reset = "keys")
       => /\ Len(sync_sent) = 2
          /\ sync_sent[1] = [opcode |-> HCI_CMD_DELETE_STORED_LINK_KEY,
                             bdaddr |-> <<0, 0, 0, 0, 0, 0>>, delete_all |-> 1]
          /\ sync_sent[2].opcode = HCI_CMD_WRITE_STORED_LINK_KEY
  /\ (~m_is_wii_bt_module /\ ~s_need_reset_keys)
       => fired[HCI_CMD_RESET] = trig[HCI_CMD_RESET]

\* C4, amended: the request that follows a reset seen on a third-party adapter
\* sends delete-all and, when the store holds keys as that request begins, then
\* write-stored-link-keys, before it is submitted or answered; a request that no
\* reset precedes, and any request on the first-party adapter, sends neither.
C4_ResyncBeforeRequest ==
  /\ pc \in {"wait_delete", "dispatch"} => (replies[cur.id] = 0 /\ ~InFlight(cur.id))
  /\ pc = "wait_delete"
       => sync_sent = <<[opcode |-> HCI_CMD_DELETE_STORED_LINK_KEY,
                         bdaddr |-> <<0, 0, 0, 0, 0, 0>>, delete_all |-> 1]>>
  /\ pc = "dispatch" =>
       IF ~m_is_wii_bt_module /\ cur.after_reset # "none"
       THEN /\ Len(sync_sent) \in {1, 2}
            /\ sync_sent[1] = [opcode |-> HCI_CMD_DELETE_STORED_LINK_KEY,
                               bdaddr |-> <<0, 0, 0, 0, 0, 0>>, delete_all |-> 1]
            /\ Len(sync_sent) = 2 =>
                 /\ sync_sent[2].opcode = HCI_CMD_WRITE_STORED_LINK_KEY
                 /\ sync_sent[2].num_keys_write >= 1
                 /\ Len(sync_sent[2].entries) = sync_sent[2].num_keys_write
            /\ cur.keys_at_begin => Len(sync_sent) = 2
       ELSE sync_sent = << >>

\* C4, witness: a request about to run its switch after both commands were sent.
C4_Witness ==
  /\ pc = "dispatch"
  /\ cur.after_reset = "keys"
  /\ Len(sync_sent) = 2

\* The sample a step of UpdateSyncButton took must have had the claimed outcome.
SampleFollowsCycle(is_held) ==
  /\ (m_sync_button_state = "Unpressed" /\ is_held) => m_sync_button_state' = "Held"
  /\ (m_sync_button_state = "Held" /\ is_held /\ held_ms > 10000)
       => m_sync_button_state' = "LongPressed"
  /\ (m_sync_button_state = "Held" /\ ~is_held) => m_sync_button_state' = "Pressed"
  /\ (m_sync_button_state = "Ignored" /\ ~is_held) => m_sync_button_state' = "Unpressed"
  /\ (m_sync_button_state = "Ignored" /\ is_held) => m_sync_button_state' = "Ignored"

\* C5: a sample moves Unpressed to Held when held, Held to LongPressed when held
\* for more than 10 s and to Pressed when released, Ignored to Unpressed when
\* released and nowhere when held; an interrupt request that finds Pressed or
\* LongPressed delivers the event and moves to Ignored; Ignored is left for
\* Unpressed by a released sample only.
C5_SyncButtonCycles ==
  [][/\ \A is_held \in BOOLEAN : UpdateSyncButton(is_held) => SampleFollowsCycle(is_held)
     /\ (DispatchStep /\ cur.kind = "intr"
           /\ m_sync_button_state \in {"Pressed", "LongPressed"})
          => /\ m_sync_button_state' = "Ignored"
             /\ last_reply'.id = cur.id
             /\ last_reply'.from = "FakeSyncButtonEvent"
             /\ last_reply'.event = HCI_EVENT_VENDOR
             /\ last_reply'.payload = IF m_sync_button_state = "Pressed" THEN 8 ELSE 9
             /\ transfers' = transfers
     /\ (m_sync_button_state = "Ignored" /\ m_sync_button_state' = "Unpressed")
          => UpdateSyncButton(FALSE)
     /\ (DispatchStep /\ m_sync_button_state' # m_sync_button_state)
          => (cur.kind = "intr" /\ m_sync_button_state \in {"Pressed", "LongPressed"})]_vars

\* C5, witness: the long-press event was delivered, the button was released and
\* is held again, for longer than the threshold.
C5_Witness ==
  /\ m_sync_button_state = "Held"
  /\ held_ms > SYNC_BUTTON_HOLD_MS_TO_RESET
  /\ last_reply.from = "FakeSyncButtonEvent"
  /\ last_reply.event = HCI_EVENT_VENDOR
  /\ last_reply.payload = SYNC_HELD_PAYLOAD

\* C6: a delete-stored-link-key command with the delete-all flag set leaves the
\* store empty; with the flag clear it removes the entry of the command's address
\* and no other, and changes no key; either way the command is submitted.
C6_DeleteStoredLinkKeyEffect ==
  [][(DispatchStep /\ cur.kind = "ctrl" /\ cur.opcode = HCI_CMD_DELETE_STORED_LINK_KEY) =>
       /\ cur.delete_all # 0 => DOMAIN s_link_keys' = {}
       /\ cur.delete_all = 0 =>
            /\ DOMAIN s_link_keys' = (DOMAIN s_link_keys) \ {cur.bdaddr}
            /\ \A a \in DOMAIN s_link_keys' : s_link_keys'[a] = s_link_keys[a]
            /\ cur.bdaddr \notin DOMAIN s_link_keys => s_link_keys' = s_link_keys
       /\ ~InFlight(cur.id)
       /\ transfers' = transfers \cup {[id |-> cur.id, type |-> "ctrl", endpoint |-> 0]}
       /\ replies' = replies]_vars

\* C6, witness: the store held both addresses when delete-one of the first was
\* handled; the other entry is left and the command is with the transport.
C6_Witness ==
  /\ pc = "idle"
  /\ next_id = 3
  /\ replies[1] = 1
  /\ DOMAIN s_link_keys = {Addr2}
  /\ transfers = {[id |-> 2, type |-> "ctrl", endpoint |-> 0]}

\* C7: the text SaveLinkKeys makes of the store loads, into an empty store, to the
\* same mapping, in every state; and the text the destructor wrote does.
C7_SaveLoadRoundTrip ==
  /\ LoadLinkKeys(SaveLinkKeys(s_link_keys), EmptyStore) = s_link_keys
  /\ session = "destroyed"
       => LET loaded == LoadLinkKeys(m_bt_passthrough_link_keys, EmptyStore) IN
            /\ DOMAIN loaded = DOMAIN s_link_keys
            /\ \A a \in DOMAIN loaded :
                 /\ Len(loaded[a]) = 16
                 /\ \A i \in 1..16 : loaded[a][i] = s_link_keys[a][i]

\* C7, witness: the destructor saved a store of two entries, one of them with key
\* bytes below 0x10, after an upsert.
C7_Witness ==
  /\ session = "destroyed"
  /\ DOMAIN s_link_keys = {Addr1, Addr2}
  /\ \E a \in DOMAIN s_link_keys : \E i \in 1..16 : s_link_keys[a][i] < 16
  /\ m_bt_passthrough_link_keys # InitialConfig

\* The address part of an "address=key" entry of the configuration text.
AddressText(pair) == SubSeq(pair, 1, Find(pair, "=") - 1)

\* The bytes an address text shows, in the order it shows them.
ShownBytes(text) == StringToMacAddress(text, <<0, 0, 0, 0, 0, 0>>)

\* C8: SaveLinkKeys writes a stored address b5..b0 as the text of b0..b5, and
\* LoadLinkKeys stores the address an entry of the configuration text shows as
\* b0..b5 under b5..b0, so that saving it again gives the same address text.
C8_AddressByteReversal ==
  /\ \A a \in DOMAIN s_link_keys :
       LET text == AddressText(SaveEntry(a, s_link_keys[a])) IN
         /\ Len(text) = 17
         /\ \A i \in 1..6 : ShownBytes(text)[i] = a[7 - i]
  /\ LET pairs == SplitString(m_bt_passthrough_link_keys, ",") IN
       \A n \in 1..Len(pairs) :
         LET shown == ShownBytes(AddressText(pairs[n]))
             loaded == LoadLinkKeys(pairs[n], EmptyStore)
         IN  /\ DOMAIN loaded =
                  {<<shown[6], shown[5], shown[4], shown[3], shown[2], shown[1]>>}
             /\ \A a \in DOMAIN loaded :
                  AddressText(SaveLinkKeys(loaded)) = AddressText(pairs[n])

\* C8, witness: the destructor wrote an entry for the address 01 02 03 04 05 06,
\* whose text is 06:05:04:03:02:01.
C8_Witness ==
  /\ session = "destroyed"
  /\ Addr2 \in DOMAIN s_link_keys
  /\ \E n \in 1..Len(SplitString(m_bt_passthrough_link_keys, ",")) :
       ShownBytes(AddressText(SplitString(m_bt_passthrough_link_keys, ",")[n]))
         = <<6, 5, 4, 3, 2, 1>>

\* The three one-shot latches of IOCtlV: how often the trigger of each occurred,
\* how often its effect was produced, and whether it is set.
Latches ==
  {[triggers |-> trig[HCI_CMD_READ_BUFFER_SIZE], effects |-> fired[HCI_CMD_READ_BUFFER_SIZE],
    set |-> m_fake_read_buffer_size_reply, name |-> "read-buffer-size-fake"],
   [triggers |-> trig[VENDOR_CMD_FC4C] + trig[VENDOR_CMD_FC4F],
    effects |-> fired[VENDOR_CMD_FC4C] + fired[VENDOR_CMD_FC4F],
    set |-> m_fake_vendor_command_reply, name |-> "vendor-command-fake"],
   [triggers |-> trig[HCI_CMD_RESET], effects |-> fired[HCI_CMD_RESET],
    set |-> s_need_reset_keys, name |-> "needs-key-resync"]}

\* C9, as claimed: each latch has produced its effect as often as its trigger
\* occurred, but for the one effect a set latch still owes.
C9_EffectsEqualTriggers ==
  \A l \in Latches :
    l.effects + (IF l.set THEN 1 ELSE 0) = l.triggers

\* C9, amended: each latch produces its effect at most once per trigger and never
\* without one; a set latch owes one effect, and a clear latch whose trigger has
\* occurred has produced its effect (triggers that find the latch set add none).
C9_EffectsAtMostTriggers ==
  \A l \in Latches :
    /\ l.effects <= l.triggers
    /\ l.set => l.effects < l.triggers
    /\ (~l.set /\ l.triggers > 0) => l.effects >= 1

\* C9, witness: two read-buffer-size commands came before the interrupt request
\* that consumed the latch: two triggers, one synthesized reply.
C9_Witness ==
  /\ trig[HCI_CMD_READ_BUFFER_SIZE] = 2
  /\ fired[HCI_CMD_READ_BUFFER_SIZE] = 1
  /\ ~m_fake_read_buffer_size_reply

\* C10, as claimed: a completion with an error status other than no-device shows
\* the notice if and only if none was shown since the last successful completion,
\* and a no-device completion shows none and leaves the episode open.
C10_NoticeOncePerEpisode ==
  [][CompletionStep =>
       /\ last_completion'.status \notin {"COMPLETED", "NO_DEVICE"}
            => (last_completion'.notice <=> ~notice_since_success)
       /\ last_completion'.status = "NO_DEVICE" => ~last_completion'.notice]_vars

\* C10, amended: a failure is a completion whose status is neither completed nor
\* no-device nor, for a bulk or interrupt transfer, timed-out.  A failure shows
\* the notice if and only if none was shown since the last completion that was
\* not a failure; a completion that is not a failure shows none.
C10_NoticeOncePerFailureRun ==
  [][CompletionStep =>
       LET c == last_completion'
           failure == IF c.type = "ctrl" THEN c.status \notin {"COMPLETED", "NO_DEVICE"}
                      ELSE c.status \notin {"COMPLETED", "NO_DEVICE", "TIMED_OUT"}
       IN  /\ failure => (c.notice <=> ~notice_since_clear)
           /\ ~failure => ~c.notice]_vars

\* C10, witness: a failure that showed nothing, a notice being on display.
C10_Witness ==
  /\ last_completion.status = "ERROR"
  /\ ~last_completion.notice
  /\ s_showed_failed_transfer

\* A device of the list Open was given that passes both filters and that
\* OpenDevice opens: its configuration can be read, it is the configured device
\* or, when none is configured, a Bluetooth one, and libusb opens and claims it.
UsableDevice(o) ==
  \E i \in 1..Len(o.devices) :
    LET d == o.devices[i] IN
      /\ d.config_ok
      /\ (o.vid = -1 \/ o.pid = -1) => d.bluetooth
      /\ (o.vid # -1 /\ o.pid # -1) => (d.idVendor = o.vid /\ d.idProduct = o.pid)
      /\ d.libusb = "ok"

\* C11: Open returns the not-found error, with no thread started and the session
\* not active, whenever no device of the list passes the filters and is opened;
\* it returns success, with the thread started and the session active, only
\* when one was.
C11_OpenNotFoundWithoutDevice ==
  (last_open.ret # "none" /\ session \in {"open", "stopped"}) =>
    IF UsableDevice(last_open)
    THEN last_open.ret = "IPC_SUCCESS" /\ m_thread_running /\ m_is_active
    ELSE last_open.ret = "IPC_ENOENT" /\ ~m_thread_running /\ ~m_is_active

\* What the last Close or destructor was expected to call when the handle was set.
ResetThenRelease ==
  <<"SendHCIResetCommand", "WaitForHCICommandComplete", "libusb_release_interface",
    "libusb_close", "m_thread.join", "libusb_unref_device">>

\* C12, as claimed: Close sends the reset command, waits for its command-complete
\* event, releases the interface, stops the thread and releases the device, in
\* this order and before the library context is released.
C12_CloseResetsThenReleases ==
  /\ session = "closed" => (teardown = ResetThenRelease /\ m_libusb_context = "init")
  /\ m_libusb_context = "exited" => ~m_thread_running

\* C12, amended: the destructor, when the handle is set, sends the reset command,
\* waits, releases the interface, stops the thread, releases the device and only
\* then releases the library context; Close releases the interface, stops the
\* thread and releases the device and sends no reset, and the destructor that
\* follows it finds no handle and only releases the context; the thread is not
\* running once either has run.
C12_TeardownOrder ==
  /\ session = "closed"
       => /\ teardown = <<"libusb_release_interface", "libusb_close", "m_thread.join",
                          "libusb_unref_device">>
          /\ ~m_thread_running
          /\ m_handle = "null"
          /\ m_libusb_context = "init"
  /\ session = "destroyed"
       => /\ teardown = IF m_handle # "null"
                        THEN ResetThenRelease \o <<"libusb_exit", "SaveLinkKeys">>
                        ELSE <<"libusb_exit", "SaveLinkKeys">>
          /\ ~m_thread_running
          /\ m_libusb_context = "exited"
  /\ m_libusb_context = "exited" => ~m_thread_running

\* C12, witness: the destructor ran on an open session and made all its calls.
C12_Witness ==
  /\ session = "destroyed"
  /\ last_open.ret = "IPC_SUCCESS"
  /\ Len(teardown) = 8
  /\ teardown[1] = "SendHCIResetCommand"
  /\ teardown[7] = "libusb_exit"

\* C13, as claimed: in read mode DoState warns and switches the reader out of read
\* mode, whatever flag the saved state holds.
C13_LoadAlwaysRefused ==
  last_do_state.mode = "MODE_READ" =>
    (last_do_state.warned /\ last_do_state.mode_after # "MODE_READ")

\* C13, amended: in read mode DoState warns, and switches the reader to verify mode
\* if and only if the flag the saved state holds is false; a state saved with the
\* flag true goes on loading.  In every other mode it does neither.
C13_LoadRefusedWhenFlagClear ==
  /\ last_do_state.mode = "MODE_READ" =>
       /\ last_do_state.warned
       /\ ~last_do_state.stored => last_do_state.mode_after = "MODE_VERIFY"
       /\ last_do_state.stored => last_do_state.mode_after = "MODE_READ"
  /\ last_do_state.mode \in {"MODE_WRITE", "MODE_MEASURE", "MODE_VERIFY"} =>
       (~last_do_state.warned /\ last_do_state.mode_after = last_do_state.mode)

\* C13, witness: a state saved with the flag true was read, and the load went on.
C13_Witness ==
  /\ last_do_state.mode = "MODE_READ"
  /\ last_do_state.stored
  /\ last_do_state.warned
  /\ last_do_state.mode_after = "MODE_READ"

\* The three sources of a synthesized answer keep what they hold.
SyncButtonKept == m_sync_button_state' = m_sync_button_state
ReadBufferSizeLatchKept == m_fake_read_buffer_size_reply' = m_fake_read_buffer_size_reply
VendorLatchKept == m_fake_vendor_command_reply' = m_fake_vendor_command_reply

\* The request IOCtlV is handling gets one synthesized reply made by `from`, and
\* nothing is submitted.
SynthesizedBy(from) ==
  /\ last_reply'.id = cur.id
  /\ last_reply'.from = from
  /\ replies' = [replies EXCEPT ![cur.id] = 1]
  /\ transfers' = transfers

\* C14: an interrupt request is answered by the first of sync button Pressed,
\* sync button LongPressed, read-buffer-size latch, vendor latch that applies; it
\* consumes that one and leaves the others as they are; when none applies it is
\* submitted.  A bulk request is submitted and consumes none of them.
C14_InterruptPriorityOrder ==
  [][DispatchStep =>
       /\ cur.kind = "intr" =>
            IF m_sync_button_state = "Pressed"
            THEN /\ SynthesizedBy("FakeSyncButtonEvent")
                 /\ last_reply'.payload = 8
                 /\ m_sync_button_state' = "Ignored"
                 /\ ReadBufferSizeLatchKept /\ VendorLatchKept
            ELSE IF m_sync_button_state = "LongPressed"
            THEN /\ SynthesizedBy("FakeSyncButtonEvent")
                 /\ last_reply'.payload = 9
                 /\ m_sync_button_state' = "Ignored"
                 /\ ReadBufferSizeLatchKept /\ VendorLatchKept
            ELSE IF m_fake_read_buffer_size_reply
            THEN /\ SynthesizedBy("FakeReadBufferSizeReply")
                 /\ ~m_fake_read_buffer_size_reply'
                 /\ SyncButtonKept /\ VendorLatchKept
            ELSE IF m_fake_vendor_command_reply
            THEN /\ SynthesizedBy("FakeVendorCommandReply")
                 /\ last_reply'.opcode = m_fake_vendor_command_reply_opcode
                 /\ ~m_fake_vendor_command_reply'
                 /\ SyncButtonKept /\ ReadBufferSizeLatchKept
            ELSE /\ transfers' = transfers \cup {[id |-> cur.id, type |-> "intr",
                                                  endpoint |-> cur.endpoint]}
                 /\ replies' = replies
                 /\ SyncButtonKept /\ ReadBufferSizeLatchKept /\ VendorLatchKept
       /\ cur.kind = "blk" =>
            /\ transfers' = transfers \cup {[id |-> cur.id, type |-> "blk",
                                             endpoint |-> cur.endpoint]}
            /\ replies' = replies
            /\ SyncButtonKept /\ ReadBufferSizeLatchKept /\ VendorLatchKept]_vars

\* C14, witness: with the sync button Pressed and both latches set, an interrupt
\* request was answered with the sync event and both latches are still set.
C14_Witness ==
  /\ m_sync_button_state = "Ignored"
  /\ last_reply.from = "FakeSyncButtonEvent"
  /\ last_reply.payload = SYNC_PRESSED_PAYLOAD
  /\ m_fake_read_buffer_size_reply
  /\ m_fake_vendor_command_reply

\* C15, as claimed: the reply to a transfer that completed with a status other
\* than completed and no-device has byte count 0.
C15_FailedTransferRepliesZero ==
  [][CompletionStep =>
       (last_completion'.status \notin {"COMPLETED", "NO_DEVICE"}
          => (last_reply'.from = "callback" /\ last_reply'.size = 0))]_vars

\* C15, amended: the reply to a completed transfer, whatever its status, is
\* enqueued on the handle of its request with the byte count the transport
\* reported for it; it is 0 when the transport reported 0.
C15_ReplyCarriesActualLength ==
  [][CompletionStep =>
       /\ last_reply'.from = "callback"
       /\ \E t \in transfers : transfers' = transfers \ {t} /\ last_reply'.id = t.id
       /\ last_reply'.size = last_completion'.actual_length
       /\ replies'[last_reply'.id] = replies[last_reply'.id] + 1]_vars

\* C15, witness: a transfer failed after moving some bytes, and the reply to its
\* request carries their number.
C15_Witness ==
  /\ last_completion.status = "ERROR"
  /\ last_completion.actual_length > 0
  /\ last_reply.from = "callback"
  /\ last_reply.size > 0

\* The store after the entry of addr was inserted or overwritten with key, every
\* other entry as it was.
Upserted(before, after, addr, key) ==
  /\ DOMAIN after = (DOMAIN before) \cup {addr}
  /\ after[addr] = key
  /\ \A a \in DOMAIN before : a # addr => after[a] = before[a]

\* C16: TransferCallback changes the store or the need-reset latch only for a
\* transfer that completed on the event endpoint: a link key notification
\* upserts its entry and leaves the others and the latch alone, a command
\* complete for reset sets the latch and leaves the store alone; with any other
\* status, endpoint or event both stay as they were.
C16_TransferCallbackStoreAndLatch ==
  [][\A t \in transfers \ transfers', ev \in AdapterEvents :
       LET status == last_completion'.status IN
       TransferCallback(t, status, ev, last_completion'.actual_length) =>
         IF status = "COMPLETED" /\ t.endpoint = HCI_EVENT
         THEN IF ev.event = HCI_EVENT_LINK_KEY_NOTIFICATION
              THEN /\ Upserted(s_link_keys, s_link_keys', ev.bdaddr, ev.key)
                   /\ s_need_reset_keys' = s_need_reset_keys
              ELSE IF ev.event = HCI_EVENT_COMMAND_COMPL /\ ev.opcode = HCI_CMD_RESET
              THEN /\ s_need_reset_keys' = TRUE
                   /\ s_link_keys' = s_link_keys
              ELSE /\ s_link_keys' = s_link_keys
                   /\ s_need_reset_keys' = s_need_reset_keys
         ELSE /\ s_link_keys' = s_link_keys
              /\ s_need_reset_keys' = s_need_reset_keys]_vars

\* C16, witness: a notification has added an entry the configuration did not
\* hold, a command complete for reset has set the latch, and the callback that
\* ran last had a failed transfer and left both.
C16_Witness ==
  /\ \E a \in DOMAIN s_link_keys : a \notin DOMAIN LoadLinkKeys(InitialConfig, EmptyStore)
  /\ s_need_reset_keys
  /\ last_completion.type = "data"
  /\ last_completion.status = "ERROR"

\* C17: the owning thread (deleting in IOCtlV, iterating in
\* SendHCIStoreLinkKeyCommand) and the libusb thread (upserting in
\* TransferCallback) are never inside the link key store at the same time.
C17_StoreAccessesExclusive ==
  ~(owner_access # "none" /\ libusb_access = "upsert")

\* C18: WaitForHCICommandComplete makes at most 100 polls and returns, also
\* when the awaited event never arrives or the transfer thread receives it, so
\* the resync of IOCtlV reaches its dispatch and the destructor, after its
\* reset, completes.
C18_WaitTerminates ==
  /\ [](polls <= MaxTries /\ tries <= MaxTries)
  /\ (pc \in {"wait_delete", "wait_write"}) ~> (pc = "dispatch")
  /\ (pc = "wait_reset") ~> (pc = "reset_waited")

\* C18, witness: a wait that never saw its event has returned after exactly
\* 100 polls, and the destructor has completed after it.
C18_Witness ==
  /\ session = "destroyed"
  /\ wait_opcode = 0
  /\ polls = MaxTries
  /\ tries = MaxTries

\* C19: every write-stored-link-key command sent for a store of n > 0 entries
\* has key count n and parameter length 1 + 22n and holds all n entries inside
\* its packet, also for the n with 1 + 22n > 255.
C19_WriteCommandHoldsAllKeys ==
  \A i \in 1..Len(sync_sent) :
    sync_sent[i].opcode = HCI_CMD_WRITE_STORED_LINK_KEY =>
      LET c == sync_sent[i]
          n == Len(c.entries)
      IN  /\ n > 0
          /\ c.num_keys_write = n
          /\ c.length = HCI_WRITE_STORED_LINK_KEY_CP_SIZE + (MAC_ADDRESS_SIZE + LINK_KEY_SIZE) * n
          /\ c.copied_to <= c.packet_size

\* An entry of the configuration text as the claim wants it: an '=' followed by
\* exactly 16 pairs of hex digits.
WellFormedEntry(pair) ==
  LET index == Find(pair, "=") IN
  /\ index # 0
  /\ Len(pair) - index = 2 * LINK_KEY_SIZE
  /\ \A i \in (index + 1)..Len(pair) : IsHexChar(pair[i])

\* C20: after construction the store holds the well-formed entries of the
\* configuration text and nothing else: an entry without '=', or whose key text
\* is too short, too long or no hex, has added nothing.
C20_MalformedEntriesSkipped ==
  session = "constructed" =>
    s_link_keys = LoadPairs(SelectSeq(SplitString(m_bt_passthrough_link_keys, ","),
                                      WellFormedEntry),
                            EmptyStore)

\* The state a held sample taken now leaves the button in.
AfterHeldSample == UpdateSyncButtonState(m_sync_button_state, held_ms, TRUE)

\* C21, as claimed: in Held, a held sample taken when at least 10 s have
\* elapsed, exactly 10 s included, moves to LongPressed.
C21_LongPressAtThreshold ==
  (m_sync_button_state = "Held" /\ held_ms >= SYNC_BUTTON_HOLD_MS_TO_RESET)
    => AfterHeldSample.state = "LongPressed"

\* C21, amended: in Held, a held sample moves to LongPressed when more than
\* 10 s have elapsed; at exactly 10 s, as before it, it leaves the state Held
\* and the timer running.
C21_LongPressAfterThreshold ==
  m_sync_button_state = "Held" =>
    IF held_ms > SYNC_BUTTON_HOLD_MS_TO_RESET
    THEN AfterHeldSample.state = "LongPressed"
    ELSE AfterHeldSample = [state |-> "Held", ms |-> held_ms]

\* C21, witness: the button, sampled as held, is in Held with the timer at
\* exactly the threshold.
C21_Witness ==
  /\ m_sync_button_state = "Held"
  /\ held_ms = SYNC_BUTTON_HOLD_MS_TO_RESET
  /\ pc = "idle"

\* The step in which an interrupt request finds a sync button event and
\* consumes it.
SyncEventConsumed ==
  /\ DispatchStep
  /\ cur.kind = "intr"
  /\ m_sync_button_state \in {"Pressed", "LongPressed"}
  /\ m_sync_button_state' = "Ignored"
  /\ last_reply'.from = "FakeSyncButtonEvent"

\* C22: Pressed and LongPressed are changed by no sample, control request or
\* bulk request: they are left only when an interrupt request consumes them,
\* for Ignored, or when a forced trigger overwrites them.  A sync event is
\* synthesized only in such a consuming step, and Ignored is then left only by
\* a released sample, for Unpressed, or by a forced trigger: one hold gives at
\* most one event, and none follows before the signal has read false.
C22_PendingEventStable ==
  [][/\ (m_sync_button_state \in {"Pressed", "LongPressed"}
           /\ m_sync_button_state' # m_sync_button_state)
          => \/ SyncEventConsumed
             \/ TriggerSyncButtonPressedEvent
             \/ TriggerSyncButtonHeldEvent
     /\ (last_reply'.from = "FakeSyncButtonEvent"
           /\ (last_reply.from # "FakeSyncButtonEvent" \/ last_reply'.id # last_reply.id))
          => SyncEventConsumed
     /\ (m_sync_button_state = "Ignored" /\ m_sync_button_state' # "Ignored")
          => \/ UpdateSyncButton(FALSE) /\ m_sync_button_state' = "Unpressed"
             \/ TriggerSyncButtonPressedEvent
             \/ TriggerSyncButtonHeldEvent]_vars

\* C22, witness: a bulk request was submitted and a control request is in its
\* switch while the long press, not yet consumed, is still pending.
C22_Witness ==
  /\ m_sync_button_state = "LongPressed"
  /\ pc = "dispatch"
  /\ cur.kind = "ctrl"
  /\ \E t \in transfers : t.type = "blk"
  /\ last_reply.from # "FakeSyncButtonEvent"

\* C23: whenever Open has returned success, with the thread started and the
\* session active, the handle the session is bound to is that of a device
\* OpenDevice returned true for: its kernel driver detach did not fail and its
\* interface was claimed.
C23_SessionDeviceWasClaimed ==
  (last_open.ret = "IPC_SUCCESS" /\ m_thread_running /\ m_is_active)
    => m_handle = "claimed"

====
